---- MODULE Spec2Model ----
\* Model of the Scratchpad plugin: the stash store of src/src/main.ts and the
\* text history of src/src/scratchpadview.ts.
EXTENDS Integers, Sequences, FiniteSets, TLC

\* ------------------------------------------------------------------ bounds

\* Number of snapshots pushed beyond the text history's capacity.
MaxEvict == 2
\* Largest N of an "undo N times, then redo N times" round trip.
MaxRoundTrip == 3
\* Number of note ids generateId hands out in a run with interleaved calls.
MaxIds == 3
\* Number of note ids generateId hands out in a run of one call at a time.
MaxSeqIds == 4
\* Number of user actions (edits, hotkeys, button clicks) in a run of the view.
MaxActions == 4
\* Largest page size passed to getStashes.
MaxPage == 2
\* Number of gestures and hotkeys in a run of the drawing canvas.
MaxCanvasActions == 5
\* Number of strokes and hotkeys in a long run of the drawing canvas.
MaxGestures == 22
\* Largest value Date.now() reaches in a run.
MaxClock == 1
\* Number of store calls that can be in flight (suspended at a read or write).
MaxInflight == 2

\* ------------------------------------------------------- program constants

\* const MAX_TEXT_HISTORY_SIZE = 50 (scratchpadview.ts:475)
MAX_TEXT_HISTORY_SIZE == 50

\* ------------------------------------------------------------------- texts
\* A text is a sequence of one-character strings; "" is <<>>.

EmptyText == <<>>

\* The text the user gets by typing n characters into an empty editor.
RECURSIVE FreshText(_)
FreshText(n) == IF n = 0 THEN <<>> ELSE Append(FreshText(n - 1), "a")

\* The editor contents the user alternates between in the text-history runs.
HistTexts == {EmptyText, <<"a">>}

\* The contents handed to the store in interleaved runs: blank and non-blank.
PlainTexts == {EmptyText, <<"a">>}

\* The texts saved as the current note in runs of one call at a time.
SaveTexts == {EmptyText, <<" ">>, <<"a">>}

\* The contents handed to createNewStash and stashContent in runs of one call
\* at a time: empty, whitespace only, and texts of one and two characters.
StoreTexts == {EmptyText, <<" ">>, <<" ", " ">>, <<"a">>, <<"a", "b">>}

\* ------------------------------------------------------------ text history
\* ScratchpadView.textHistory / textIndex, as [textHistory, textIndex] records.

History(h, i) == [textHistory |-> h, textIndex |-> i]

\* Array.prototype.slice(0, n) on a sequence.
slice(s, n) == SubSeq(s, 1, IF n < Len(s) THEN n ELSE Len(s))

\* saveTextSnapshot with the capacity check left out.
saveTextSnapshot_noEvict(h, i, value) ==
    IF i < 0 \/ value # h[i + 1]
    THEN LET cut == IF i < Len(h) - 1 THEN slice(h, i + 1) ELSE h
             pushed == Append(cut, value)
         IN History(pushed, Len(pushed) - 1)
    ELSE History(h, i)

\* saveTextSnapshot evicting without moving the cursor.
saveTextSnapshot_noDecrement(h, i, value) ==
    IF i < 0 \/ value # h[i + 1]
    THEN LET cut == IF i < Len(h) - 1 THEN slice(h, i + 1) ELSE h
             pushed == Append(cut, value)
         IN IF Len(pushed) > MAX_TEXT_HISTORY_SIZE
            THEN History(Tail(pushed), Len(pushed) - 1)
            ELSE History(pushed, Len(pushed) - 1)
    ELSE History(h, i)

\* saveTextSnapshot keeping the redo branch.
saveTextSnapshot_keepRedo(h, i, value) ==
    IF i < 0 \/ value # h[i + 1]
    THEN LET pushed == Append(h, value)
         IN IF Len(pushed) > MAX_TEXT_HISTORY_SIZE
            THEN History(Tail(pushed), Len(pushed) - 2)
            ELSE History(pushed, Len(pushed) - 1)
    ELSE History(h, i)

\* saveTextSnapshot without the duplicate check.
saveTextSnapshot_noDedupe(h, i, value) ==
    LET cut == IF i < Len(h) - 1 THEN slice(h, i + 1) ELSE h
        pushed == Append(cut, value)
    IN IF Len(pushed) > MAX_TEXT_HISTORY_SIZE
       THEN History(Tail(pushed), Len(pushed) - 2)
       ELSE History(pushed, Len(pushed) - 1)

\* scratchpadview.ts:466-481. value is this.textarea.value.
saveTextSnapshot(h, i, value) ==
    IF i < 0 \/ value # h[i + 1]
    THEN LET cut == IF i < Len(h) - 1 THEN slice(h, i + 1) ELSE h
             pushed == Append(cut, value)
         IN IF Len(pushed) > MAX_TEXT_HISTORY_SIZE
            THEN History(Tail(pushed), Len(pushed) - 2)
            ELSE History(pushed, Len(pushed) - 1)
    ELSE History(h, i)

\* The editor as undoText/redoText leave it: [textIndex, value].
Shown(i, v) == [textIndex |-> i, value |-> v]

\* undoText that steps below the first entry.
undoText_offByOne(h, i, value) ==
    IF i < 0 THEN Shown(i, value)
    ELSE IF i = 0 THEN Shown(-1, value)
    ELSE Shown(i - 1, h[i])

\* scratchpadview.ts:483-487
undoText(h, i, value) ==
    IF i <= 0 THEN Shown(i, value) ELSE Shown(i - 1, h[i])

\* redoText that does not move past the second-newest entry.
redoText_stopsEarly(h, i, value) ==
    IF i >= Len(h) - 2 THEN Shown(i, value) ELSE Shown(i + 1, h[i + 2])

\* scratchpadview.ts:489-493
redoText(h, i, value) ==
    IF i >= Len(h) - 1 THEN Shown(i, value) ELSE Shown(i + 1, h[i + 2])

\* ------------------------------------------------------------- stash store
\* StashNote and ScratchpadData of main.ts:65-77. An optional note is a sequence
\* of length 0 or 1.

IsSpace(c) == c \in {" ", "\n"}

\* String.prototype.trim
RECURSIVE trimStart(_)
trimStart(t) == IF t # <<>> /\ IsSpace(Head(t)) THEN trimStart(Tail(t)) ELSE t

RECURSIVE trimEnd(_)
trimEnd(t) ==
    IF t # <<>> /\ IsSpace(t[Len(t)]) THEN trimEnd(SubSeq(t, 1, Len(t) - 1)) ELSE t

trim(t) == trimEnd(trimStart(t))

\* content.trim() is a non-empty string
NonBlank(t) == trim(t) # <<>>

\* The placeholder "Empty note" of generatePreview.
EmptyNotePreview == <<"E", "m", "p", "t", "y", " ", "n", "o", "t", "e">>

\* main.ts:327-329
generatePreview(content) ==
    LET cut == slice(trim(content), 100)
        flat == [i \in 1..Len(cut) |-> IF cut[i] = "\n" THEN " " ELSE cut[i]]
    IN IF flat = <<>> THEN EmptyNotePreview ELSE flat

StashNote(id, createdAt, updatedAt, content) ==
    [id |-> id, createdAt |-> createdAt, updatedAt |-> updatedAt,
     preview |-> generatePreview(content), content |-> content]

ScratchpadData(cur, list) == [currentStash |-> cur, stashes |-> list]

\* { stashes: [] }
EmptyData == ScratchpadData(<<>>, <<>>)

\* The backing file history.json: absent, or holding a serialized current-schema
\* value.
AbsentFile == [kind |-> "absent", data |-> EmptyData, text |-> EmptyText]
JsonFile(data) == [kind |-> "json", data |-> data, text |-> EmptyText]

\* The file of the legacy single-note schema, { text: t } (main.ts:159), and a
\* file JSON.parse rejects (main.ts:175-177).
LegacyFile(t) == [kind |-> "legacy", data |-> EmptyData, text |-> t]
\* A file holding a JSON object that has neither a text nor a stashes
\* property, such as {} or {"currentStash": ...}; cur is its currentStash.
NoListFile(cur) == [kind |-> "nolist", data |-> [currentStash |-> cur, stashes |-> <<>>],
                    text |-> <<>>]

MalformedFile == [kind |-> "malformed", data |-> EmptyData, text |-> EmptyText]

\* stashes.filter(s => s.id !== id)
withoutId(list, id) == SelectSeq(list, LAMBDA n : n.id # id)

IdsOf(list) == {list[j].id : j \in 1..Len(list)}

\* What a store method hands back once it has the loaded data: whether it
\* writes, the data it writes, how it ends and the note it returns.
Outcome(ret, write, data, note, usedId) ==
    [ret |-> ret, write |-> write, data |-> data, note |-> note, usedId |-> usedId]

\* saveScratchpadContent that stamps createdAt anew on every save.
saveScratchpadContent_recreates(data, text, id, t) ==
    IF data.currentStash = <<>>
    THEN Outcome("ok", TRUE,
                 ScratchpadData(<<StashNote(id, t, t, text)>>, data.stashes),
                 <<>>, TRUE)
    ELSE LET cur == data.currentStash[1]
         IN Outcome("ok", TRUE,
                    ScratchpadData(<<StashNote(cur.id, t, t, text)>>, data.stashes),
                    <<>>, FALSE)

\* main.ts:131-148, after the load. id and t are generateId() and Date.now().
saveScratchpadContent(data, text, id, t) ==
    IF data.currentStash = <<>>
    THEN Outcome("ok", TRUE,
                 ScratchpadData(<<StashNote(id, t, t, text)>>, data.stashes),
                 <<>>, TRUE)
    ELSE LET cur == data.currentStash[1]
         IN Outcome("ok", TRUE,
                    ScratchpadData(<<StashNote(cur.id, cur.createdAt, t, text)>>,
                                   data.stashes),
                    <<>>, FALSE)

\* limitStashes that never truncates.
limitStashes_noLimit(list, st) == <<list>>

\* limitStashes truncating whether or not autoEvictOldest is set.
limitStashes_alwaysEvict(list, st) ==
    IF Len(list) > st.maxStashes THEN <<slice(list, st.maxStashes)>> ELSE <<list>>

\* limitStashes dropping the head of the list instead of its tail.
limitStashes_evictNewest(list, st) ==
    IF Len(list) > st.maxStashes
    THEN IF st.autoEvictOldest
         THEN <<SubSeq(list, Len(list) - st.maxStashes + 1, Len(list))>>
         ELSE <<>>
    ELSE <<list>>

\* The limit step of createNewStash and stashContent (main.ts:201-208, 254-261):
\* <<>> stands for the thrown "Maximum number of stashes" error.
limitStashes(list, st) ==
    IF Len(list) > st.maxStashes
    THEN IF st.autoEvictOldest THEN <<slice(list, st.maxStashes)>> ELSE <<>>
    ELSE <<list>>

\* demoteCurrent appending the current note instead of prepending it.
demoteCurrent_append(data) ==
    IF data.currentStash # <<>> /\ NonBlank(data.currentStash[1].content)
    THEN Append(withoutId(data.stashes, data.currentStash[1].id), data.currentStash[1])
    ELSE data.stashes

\* main.ts:195-209: the current note moved to the front of the list.
demoteCurrent(data) ==
    IF data.currentStash # <<>> /\ NonBlank(data.currentStash[1].content)
    THEN <<data.currentStash[1]>> \o withoutId(data.stashes, data.currentStash[1].id)
    ELSE data.stashes

\* main.ts:193-225, after the load.
createNewStash(data, content, id, t, st) ==
    LET demoting == data.currentStash # <<>> /\ NonBlank(data.currentStash[1].content)
        list == IF demoting THEN limitStashes(demoteCurrent(data), st)
                ELSE <<data.stashes>>
        newStash == StashNote(id, t, t, content)
    IN IF list = <<>>
       THEN Outcome("limit", FALSE, data, <<>>, FALSE)
       ELSE Outcome("ok", TRUE, ScratchpadData(<<newStash>>, list[1]),
                    <<newStash>>, TRUE)

\* stashContent installing the new note as the current note.
stashContent_replacesCurrent(data, content, id, t, st) ==
    LET newStash == StashNote(id, t, t, content)
        list == limitStashes(<<newStash>> \o data.stashes, st)
    IN IF list = <<>>
       THEN Outcome("limit", FALSE, data, <<>>, TRUE)
       ELSE Outcome("ok", TRUE, ScratchpadData(<<newStash>>, list[1]),
                    <<newStash>>, TRUE)

\* main.ts:240-266, after the load.
stashContent(data, content, id, t, st) ==
    LET newStash == StashNote(id, t, t, content)
        list == limitStashes(<<newStash>> \o data.stashes, st)
    IN IF list = <<>>
       THEN Outcome("limit", FALSE, data, <<>>, TRUE)
       ELSE Outcome("ok", TRUE, ScratchpadData(data.currentStash, list[1]),
                    <<newStash>>, TRUE)

\* stashes.find(s => s.id === id): the first match, or <<>>.
findById(list, id) ==
    LET hits == SelectSeq(list, LAMBDA n : n.id = id)
    IN IF hits = <<>> THEN <<>> ELSE <<hits[1]>>

\* fetchStash that leaves the fetched note in the list.
fetchStash_keepInList(data, id, t) ==
    IF data.currentStash # <<>> /\ data.currentStash[1].id = id
    THEN Outcome("ok", FALSE, data, data.currentStash, FALSE)
    ELSE LET stash == findById(data.stashes, id)
         IN IF stash # <<>>
            THEN LET cur == [stash[1] EXCEPT !.updatedAt = t]
                 IN Outcome("ok", TRUE, ScratchpadData(<<cur>>, data.stashes),
                            <<cur>>, FALSE)
            ELSE Outcome("null", FALSE, data, <<>>, FALSE)

\* fetchStash that writes the loaded data back when the id is unknown.
fetchStash_writeOnMiss(data, id, t) ==
    IF data.currentStash # <<>> /\ data.currentStash[1].id = id
    THEN Outcome("ok", FALSE, data, data.currentStash, FALSE)
    ELSE LET stash == findById(data.stashes, id)
         IN IF stash # <<>>
            THEN LET cur == [stash[1] EXCEPT !.updatedAt = t]
                 IN Outcome("ok", TRUE,
                            ScratchpadData(<<cur>>, withoutId(data.stashes, id)),
                            <<cur>>, FALSE)
            ELSE Outcome("null", TRUE, data, <<>>, FALSE)

\* fetchStash that keeps the fetched note's old updatedAt.
fetchStash_staleTime(data, id, t) ==
    IF data.currentStash # <<>> /\ data.currentStash[1].id = id
    THEN Outcome("ok", FALSE, data, data.currentStash, FALSE)
    ELSE LET stash == findById(data.stashes, id)
         IN IF stash # <<>>
            THEN Outcome("ok", TRUE,
                         ScratchpadData(stash, withoutId(data.stashes, id)),
                         stash, FALSE)
            ELSE Outcome("null", FALSE, data, <<>>, FALSE)

\* main.ts:270-290, after the load.
fetchStash(data, id, t) ==
    IF data.currentStash # <<>> /\ data.currentStash[1].id = id
    THEN Outcome("ok", FALSE, data, data.currentStash, FALSE)
    ELSE LET stash == findById(data.stashes, id)
         IN IF stash # <<>>
            THEN LET cur == [stash[1] EXCEPT !.updatedAt = t]
                 IN Outcome("ok", TRUE,
                            ScratchpadData(<<cur>>, withoutId(data.stashes, id)),
                            <<cur>>, FALSE)
            ELSE Outcome("null", FALSE, data, <<>>, FALSE)

\* deleteStash that removes the head of the list when the id is not the
\* current note's.
deleteStash_removesHead(data, id) ==
    IF data.currentStash # <<>> /\ data.currentStash[1].id = id
    THEN Outcome("ok", TRUE, ScratchpadData(<<>>, data.stashes), <<>>, FALSE)
    ELSE Outcome("ok", TRUE,
                 ScratchpadData(data.currentStash,
                                IF data.stashes = <<>> THEN <<>> ELSE Tail(data.stashes)),
                 <<>>, FALSE)

\* main.ts:294-303, after the load.
deleteStash(data, id) ==
    IF data.currentStash # <<>> /\ data.currentStash[1].id = id
    THEN Outcome("ok", TRUE, ScratchpadData(<<>>, data.stashes), <<>>, FALSE)
    ELSE Outcome("ok", TRUE,
                 ScratchpadData(data.currentStash, withoutId(data.stashes, id)),
                 <<>>, FALSE)

\* clearAllStashes that drops the current note too.
clearAllStashes_dropsCurrent(data) ==
    Outcome("ok", TRUE, ScratchpadData(<<>>, <<>>), <<>>, FALSE)

\* main.ts:307-311, after the load.
clearAllStashes(data) ==
    Outcome("ok", TRUE, ScratchpadData(data.currentStash, <<>>), <<>>, FALSE)

\* The place insertion gives note n in q, a list already in descending order
\* of updatedAt: behind every note that is not older.
insertByUpdatedAt(n, q) ==
    LET k == Cardinality({i \in 1..Len(q) : q[i].updatedAt >= n.updatedAt})
    IN SubSeq(q, 1, k) \o <<n>> \o SubSeq(q, k + 1, Len(q))

\* [...list].sort((a, b) => b.updatedAt - a.updatedAt) (main.ts:318): a stable
\* sort, so notes of equal updatedAt keep their list order.
RECURSIVE sortByUpdatedAt(_)
sortByUpdatedAt(list) ==
    IF list = <<>> THEN <<>>
    ELSE insertByUpdatedAt(list[Len(list)],
                           sortByUpdatedAt(SubSeq(list, 1, Len(list) - 1)))

\* Array.prototype.slice(a, b) on a sequence, 0 <= a <= b.
sliceFrom(q, a, b) == SubSeq(q, a + 1, IF b < Len(q) THEN b ELSE Len(q))

\* getStashes writing the loaded data back.
getStashes_writesBack(data, limit, offset) ==
    Outcome("ok", TRUE, data,
            sliceFrom(sortByUpdatedAt(data.stashes), offset, offset + limit), FALSE)

\* getStashes paging through the list as stored, without the sort.
getStashes_unsorted(data, limit, offset) ==
    Outcome("ok", FALSE, data, sliceFrom(data.stashes, offset, offset + limit), FALSE)

\* main.ts:315-320, after the load: the page is handed back as the note.
getStashes(data, limit, offset) ==
    Outcome("ok", FALSE, data,
            sliceFrom(sortByUpdatedAt(data.stashes), offset, offset + limit), FALSE)

\* prelude without the empty-content test.
prelude_noBlankCheck(kind, arg, st) ==
    IF kind \in {"new", "stash"}
    THEN IF Len(arg) > st.maxNoteLength THEN "toolong" ELSE "load"
    ELSE "load"

\* prelude rejecting content of exactly maxNoteLength characters.
prelude_lengthOffByOne(kind, arg, st) ==
    IF kind \in {"new", "stash"}
    THEN IF ~NonBlank(arg) THEN "null"
         ELSE IF Len(arg) >= st.maxNoteLength THEN "toolong"
         ELSE "load"
    ELSE "load"

\* What a store method does before it loads (main.ts:183-191, 230-238):
\* "null" (blank content), "toolong" (the thrown length error) or "load".
prelude(kind, arg, st) ==
    IF kind \in {"new", "stash"}
    THEN IF ~NonBlank(arg) THEN "null"
         ELSE IF Len(arg) > st.maxNoteLength THEN "toolong"
         ELSE "load"
    ELSE "load"

\* The method body that follows `const data = await this.loadScratchpadContent()`.
afterLoad(kind, arg, data, id, t, st) ==
    CASE kind = "save" -> saveScratchpadContent(data, arg, id, t)
      [] kind = "new" -> createNewStash(data, arg, id, t, st)
      [] kind = "stash" -> stashContent(data, arg, id, t, st)
      [] kind = "fetch" -> fetchStash(data, arg, t)
      [] kind = "delete" -> deleteStash(data, arg)
      [] kind = "clear" -> clearAllStashes(data)
      [] kind = "load" -> Outcome("ok", FALSE, data, <<>>, FALSE)
      [] kind = "get" -> getStashes(data, arg.limit, arg.offset)

\* The TypeError of a method that reads a property of data.stashes where
\* the loaded object has no stashes.
TypeError(data, usedId) == Outcome("typeerror", FALSE, data, <<>>, usedId)

\* The method body where the loaded object has no stashes property
\* (loadScratchpadContent returns it as parsed, main.ts:174): data.stashes is
\* undefined, and the methods that call filter, unshift, find or spread on it
\* throw; the others go on and serialize an object that still has none, but
\* for clearAllStashes, which assigns the list.
afterLoadNoList(kind, arg, data, id, t, st) ==
    LET cur == data.currentStash
        isCurrent == cur # <<>> /\ cur[1].id = arg
    IN CASE kind = "save" -> saveScratchpadContent(data, arg, id, t)
         [] kind = "new" ->
              IF cur # <<>> /\ NonBlank(cur[1].content)
              THEN TypeError(data, FALSE)
              ELSE Outcome("ok", TRUE, ScratchpadData(<<StashNote(id, t, t, arg)>>, <<>>),
                           <<StashNote(id, t, t, arg)>>, TRUE)
         [] kind = "stash" -> TypeError(data, TRUE)
         [] kind = "fetch" ->
              IF isCurrent THEN Outcome("ok", FALSE, data, cur, FALSE)
              ELSE TypeError(data, FALSE)
         [] kind = "delete" ->
              IF isCurrent THEN Outcome("ok", TRUE, ScratchpadData(<<>>, <<>>), <<>>, FALSE)
              ELSE TypeError(data, FALSE)
         [] kind = "clear" -> clearAllStashes(data)
         [] kind = "load" -> Outcome("ok", FALSE, data, <<>>, FALSE)
         [] kind = "get" -> TypeError(data, FALSE)

\* ------------------------------------------------------------------- state

VARIABLES
    file,           \* the backing file history.json
    settings,       \* this.settings
    ops,            \* the store calls in flight, by slot
    nextId,         \* the next id generateId returns
    now,            \* Date.now()
    done,           \* history: the store call that completed last
    textarea,       \* this.textarea.value
    textHistory,    \* this.textHistory
    textIndex,      \* this.textIndex
    isTyping,       \* this.isTyping
    phase,          \* onOpen's progress: "constructed", "loading", "open", or
                    \* "failed" where its load has rejected
    snapTimer,      \* the pending timers of debouncedSaveTextSnapshot
    saveTimer,      \* the pending timers of debouncedAutoSave
    canvasHistory,  \* this.canvasHistory (the view with the drawing surface)
    canvasIndex,    \* this.canvasIndex
    surface,        \* the pixels of this.canvas
    lastAction,     \* history: the handler that ran last
    prev,           \* history: textarea, textHistory, textIndex before that handler
    scenario,       \* history: the run's scenario, fixed by the initial state
    pushes,         \* history: snapshots appended by saveTextSnapshot (counted
                    \* in the consecutive-pushes scenario only)
    rt,             \* history: the undo-N/redo-N round trip in progress
    demoted,        \* history: the notes createNewStash has moved to the list,
                    \* oldest first (kept in the demotion scenario only)
    actions,        \* history: user actions so far (counted in the view
                    \* scenario only)
    pages,          \* history: the pages consecutive getStashes calls have
                    \* returned since the store was last written (kept in the
                    \* paging scenario only)
    fetched,        \* history: the editor's content and the fetched note's
                    \* content of the view's last fetch that had content to
                    \* stash, until the user's next action (kept in the
                    \* note-switching scenario only)
    burst,          \* history: the inputs of the running burst (n) and the commits of each debounced call since the
                    \* last input event (kept in the debounce scenario only)
    shown           \* history: the texts the editor has held since its content
                    \* was last replaced as a whole (kept in the replacement
                    \* scenario only)

viewVars == <<textarea, textHistory, textIndex, isTyping, phase, snapTimer, saveTimer>>
ghostVars == <<scenario, lastAction, prev, pushes, rt, demoted, actions, pages, fetched, burst, shown>>
canvasVars == <<canvasHistory, canvasIndex, surface>>
storeVars == <<file, settings, ops, nextId, now, done>>
vars == <<storeVars, viewVars, ghostVars, canvasVars>>

Editor == [textarea |-> textarea, textHistory |-> textHistory, textIndex |-> textIndex]

NoRoundTrip == [phase |-> "idle", n |-> 0, k |-> 0, saved |-> <<>>]

NoOutcome == Outcome("none", FALSE, EmptyData, <<>>, FALSE)

Idle == [kind |-> "idle", arg |-> <<>>, pc |-> "idle", data |-> EmptyData,
         out |-> NoOutcome, owner |-> "none", held |-> <<>>,
         before |-> AbsentFile, migrated |-> FALSE, at |-> 0,
         failed |-> FALSE, nolist |-> FALSE]

NoBurst == [snap |-> 0, save |-> 0, n |-> 0]

\* The drawing surface with nothing on it (ctx.clearRect over the whole canvas).
Blank == <<>>

\* The drawing view's fields as constructed (part_000:16-17), the canvas blank.
InitCanvas0 ==
    /\ canvasHistory = <<>>
    /\ canvasIndex = -1
    /\ surface = Blank

NoPages == [limit |-> 0, got |-> <<>>]

\* The scenarios that run one store call at a time, and those of them that
\* keep the last completed call.
Sequential == {"seq", "demote", "clock", "load", "fault", "limits", "newstash",
               "replace"}
Recorded == {"seq", "clock", "load", "fault", "switch", "limits", "race", "newstash",
             "replace"}
\* The scenarios with a budget of user actions.
Budgeted == {"view", "switch", "debounce", "newstash", "replace", "undoredo"}

\* The scenarios that also keep the call that ended before the last one.
Chained == {"race", "newstash"}

NoPrior == [kind |-> "none", arg |-> <<>>, ret |-> "none", note |-> <<>>,
            wrote |-> FALSE]

NothingDone == [kind |-> "none", arg |-> <<>>, ret |-> "none", pre |-> EmptyData,
                post |-> EmptyData, wrote |-> FALSE, note |-> <<>>,
                before |-> AbsentFile, migrated |-> FALSE, at |-> 0,
                failed |-> FALSE, prior |-> NoPrior]

\* The settings of a run: the defaults of main.ts:89-97 with small limits, as
\* the settings tab (main.ts:385-421) lets the user set them.
SettingsChoices ==
    [maxStashes : {1, 2, 3}, autoEvictOldest : BOOLEAN, maxNoteLength : {1},
     autoStashOnFetch : {TRUE}]

\* No file yet, nothing in flight.
InitStoreEmpty ==
    /\ file = AbsentFile
    /\ settings \in SettingsChoices
    /\ ops = [s \in 1..MaxInflight |-> Idle]
    /\ nextId = 1
    /\ now = 0
    /\ done = NothingDone

\* The view after onOpen has loaded an empty store (loadContentFromPlugin,
\* scratchpadview.ts:517-521).
InitOpenedEmpty ==
    /\ textarea = EmptyText
    /\ textHistory = <<EmptyText>>
    /\ textIndex = 0
    /\ isTyping = FALSE
    /\ phase = "open"
    /\ snapTimer = 0
    /\ saveTimer = 0
    /\ lastAction = "load"
    /\ prev = [textarea |-> EmptyText, textHistory |-> <<>>, textIndex |-> -1]
    /\ pushes = 0
    /\ rt = NoRoundTrip
    /\ demoted = <<>>
    /\ pages = NoPages
    /\ shown = {}
    /\ actions = 0
    /\ fetched = <<>>
    /\ burst = NoBurst
    /\ InitCanvas0

\* ---------------------------------------------------------------- handlers

\* What the history variables prev and actions record of a user action; prev
\* is kept in the history-only scenarios, actions in the view scenario.
Remember ==
    /\ prev' = IF scenario \in {"text", "cap"} THEN Editor ELSE prev
    /\ actions' = IF scenario \in Budgeted THEN actions + 1 ELSE actions

UserCan ==
    /\ rt.phase = "idle"
    /\ phase # "constructed"
    /\ scenario \in Budgeted => actions < MaxActions

\* debounced with a timer set at every call and none cancelled.
debounced_noCancel(pending) == pending + 1

\* The timers a function made by debounce(cb, timeout, true) has pending after
\* a call (scratchpadview.ts:106-123, made once in setupTextarea): the pending
\* one is cancelled and one is set.
debounced(pending) == 1

\* The textarea's "input" listener (scratchpadview.ts:125-129): the user has
\* changed the editor to text t; both debounced calls are (re)armed.
Input(t) ==
    /\ UserCan
    /\ t # textarea
    /\ Remember
    /\ textarea' = t
    /\ snapTimer' = debounced(snapTimer)
    /\ saveTimer' = debounced(saveTimer)
    /\ lastAction' = "input"
    /\ fetched' = <<>>
    /\ burst' = IF scenario = "debounce" /\ snapTimer > 0 /\ saveTimer > 0
                THEN [NoBurst EXCEPT !.n = burst.n + 1]
                ELSE IF scenario = "debounce" THEN [NoBurst EXCEPT !.n = 1]
                ELSE NoBurst
    /\ shown' = IF scenario = "replace" THEN shown \cup {t} ELSE shown
    /\ UNCHANGED <<textHistory, textIndex, isTyping, phase, scenario, canvasVars, pushes, rt, demoted, pages>>
    /\ UNCHANGED storeVars

\* The debounced callback of scratchpadview.ts:106-115 fires.
SnapshotFire ==
    /\ rt.phase = "idle"
    /\ snapTimer > 0
    /\ snapTimer' = snapTimer - 1
    /\ burst' = IF scenario = "debounce" THEN [burst EXCEPT !.snap = @ + 1] ELSE burst
    /\ prev' = IF scenario \in {"text", "cap"} THEN Editor ELSE prev
    /\ IF isTyping
       THEN UNCHANGED <<textHistory, textIndex, pushes>> /\ lastAction' = "skip"
       ELSE LET r == saveTextSnapshot(textHistory, textIndex, textarea)
            IN /\ textHistory' = r.textHistory
               /\ textIndex' = r.textIndex
               /\ pushes' = IF scenario = "cap" /\ r # History(textHistory, textIndex)
                            THEN pushes + 1 ELSE pushes
               /\ lastAction' = "push"
    /\ UNCHANGED <<textarea, isTyping, phase, saveTimer, scenario, fetched, canvasVars, rt, demoted, actions, pages, shown>>
    /\ UNCHANGED storeVars

\* handleUndo (scratchpadview.ts:495-498); the hotkeys are registered once
\* onOpen's load has returned (scratchpadview.ts:59-61).
Undo ==
    /\ UserCan
    /\ phase = "open"
    /\ LET r == undoText(textHistory, textIndex, textarea)
       IN textIndex' = r.textIndex /\ textarea' = r.value
    /\ Remember
    /\ lastAction' = "undo"
    /\ UNCHANGED <<textHistory, isTyping, phase, snapTimer, saveTimer, scenario, fetched, burst, canvasVars, pushes, rt, demoted, pages, shown>>
    /\ UNCHANGED storeVars

\* handleRedo (scratchpadview.ts:500-503)
Redo ==
    /\ UserCan
    /\ phase = "open"
    /\ LET r == redoText(textHistory, textIndex, textarea)
       IN textIndex' = r.textIndex /\ textarea' = r.value
    /\ Remember
    /\ lastAction' = "redo"
    /\ UNCHANGED <<textHistory, isTyping, phase, snapTimer, saveTimer, scenario, fetched, burst, canvasVars, pushes, rt, demoted, pages, shown>>
    /\ UNCHANGED storeVars

\* ------------------------------------------------- undo-N / redo-N scenario

\* Right after a snapshot commit that left the cursor on the newest entry (as
\* every sequence of pushes does) the user starts pressing undo n times and then
\* redo n times, doing nothing else in between.
RoundTripStart(n) ==
    /\ rt.phase = "idle"
    /\ lastAction = "push"
    /\ textIndex = Len(textHistory) - 1
    /\ rt' = [phase |-> IF n = 0 THEN "done" ELSE "undo", n |-> n, k |-> 0,
              saved |-> Editor]
    /\ lastAction' = "roundtrip"
    /\ UNCHANGED <<viewVars, scenario, fetched, burst, canvasVars, prev, pushes, demoted, actions, pages, shown>>
    /\ UNCHANGED storeVars

\* In any state of the open view the user presses undo and then redo, doing
\* nothing else in between.
UndoThenRedo ==
    /\ rt.phase = "idle"
    /\ phase = "open"
    /\ rt' = [phase |-> "undo", n |-> 1, k |-> 0, saved |-> Editor]
    /\ lastAction' = "roundtrip"
    /\ UNCHANGED <<viewVars, scenario, fetched, burst, canvasVars, prev, pushes, demoted, actions, pages, shown>>
    /\ UNCHANGED storeVars

RoundTripUndo ==
    /\ rt.phase = "undo"
    /\ LET r == undoText(textHistory, textIndex, textarea)
       IN textIndex' = r.textIndex /\ textarea' = r.value
    /\ rt' = IF rt.k + 1 = rt.n
             THEN [rt EXCEPT !.phase = "redo", !.k = 0]
             ELSE [rt EXCEPT !.k = rt.k + 1]
    /\ UNCHANGED <<textHistory, isTyping, phase, snapTimer, saveTimer, scenario, fetched, burst, canvasVars, lastAction, prev, pushes, demoted, actions, pages, shown>>
    /\ UNCHANGED storeVars

RoundTripRedo ==
    /\ rt.phase = "redo"
    /\ LET r == redoText(textHistory, textIndex, textarea)
       IN textIndex' = r.textIndex /\ textarea' = r.value
    /\ rt' = IF rt.k + 1 = rt.n
             THEN [rt EXCEPT !.phase = "done", !.k = 0]
             ELSE [rt EXCEPT !.k = rt.k + 1]
    /\ UNCHANGED <<textHistory, isTyping, phase, snapTimer, saveTimer, scenario, fetched, burst, canvasVars, lastAction, prev, pushes, demoted, actions, pages, shown>>
    /\ UNCHANGED storeVars

RoundTripEnd ==
    /\ rt.phase = "done"
    /\ rt' = NoRoundTrip
    /\ lastAction' = "roundtrip"
    /\ UNCHANGED <<viewVars, scenario, fetched, burst, canvasVars, prev, pushes, demoted, actions, pages, shown>>
    /\ UNCHANGED storeVars

\* ------------------------------------------------------------- store calls
\* Every store method is `load, compute, write`: it suspends at
\* adapter.exists, at adapter.read and at adapter.write (main.ts:151-154 and
\* the write that ends each method), and other handlers run in between.
\* JSON.stringify followed by JSON.parse gives back the same ScratchpadData
\* (strings, numbers and arrays; an undefined currentStash is dropped and reads
\* back as undefined), so the file holds the data written.

FreeSlots == {s \in 1..MaxInflight : ops[s].pc = "idle"}
InFlight == Cardinality({s \in 1..MaxInflight : ops[s].pc # "idle"})
Lowest(S) == CHOOSE s \in S : \A u \in S : s <= u

IdLimit == IF scenario \in {"store", "race"} THEN MaxIds ELSE MaxSeqIds

\* generateId (main.ts:323-325), taken to return a value never returned before.
generateId == nextId

\* Runs of one call at a time keep the last completed call, with the file as
\* it was when the call was made, the data the call loaded and the data it left.
Completed(kind, arg, before, migrated, at, failed, data, r) ==
    IF scenario \in Recorded
    THEN [kind |-> kind, arg |-> arg, ret |-> r.ret, pre |-> data, post |-> r.data,
          wrote |-> r.write, note |-> r.note, before |-> before,
          migrated |-> migrated, at |-> at, failed |-> failed,
          prior |-> IF scenario \in Chained
                    THEN [kind |-> done.kind, arg |-> done.arg, ret |-> done.ret,
                          note |-> done.note, wrote |-> done.wrote]
                    ELSE NoPrior]
    ELSE NothingDone

\* A store method called with arg runs up to its first await: it has returned
\* null or thrown already ("null", "toolong"), or it waits on adapter.exists.
Started(kind, arg, owner, held) ==
    IF prelude(kind, arg, settings) = "load"
    THEN [kind |-> kind, arg |-> arg, pc |-> "exists", data |-> EmptyData,
          out |-> NoOutcome, owner |-> owner, held |-> held,
          before |-> IF scenario \in Recorded THEN file ELSE AbsentFile,
          migrated |-> FALSE, at |-> 0, failed |-> FALSE, nolist |-> FALSE]
    ELSE Idle

\* showStash with the fetched note's content pushed on the text history.
showStash_keepsHistory(stash) ==
    /\ textarea' = stash.content
    /\ textHistory' = Append(textHistory, stash.content)
    /\ textIndex' = Len(textHistory)
    /\ UNCHANGED <<isTyping, phase, snapTimer, saveTimer>>

\* The rest of the view's fetchStash (scratchpadview.ts:402-420): the fetched
\* note replaces the editor content and the text history.
showStash(stash) ==
    /\ textarea' = stash.content
    /\ textHistory' = <<stash.content>>
    /\ textIndex' = 0
    /\ UNCHANGED <<isTyping, phase, snapTimer, saveTimer>>

\* loadContentFromPlugin after its await, and the rest of onOpen
\* (scratchpadview.ts:511-521, 55-61).
onOpenLoaded(s, r) ==
    LET content == IF r.data.currentStash # <<>> THEN r.data.currentStash[1].content
                   ELSE EmptyText
        h == IF Len(<<content>>) = 0 THEN saveTextSnapshot(<<content>>, 0, content)
             ELSE History(<<content>>, 0)
    IN /\ ops' = [ops EXCEPT ![s] = Idle]
       /\ IF r.ret = "readfailed"
          THEN /\ phase' = "failed"
               /\ UNCHANGED <<textarea, textHistory, textIndex>>
          ELSE /\ textarea' = content
               /\ textHistory' = h.textHistory
               /\ textIndex' = h.textIndex
               /\ phase' = "open"
       /\ UNCHANGED <<isTyping, snapTimer, saveTimer>>

\* The view's createNewStash after its await (scratchpadview.ts:447-460).
createNewStashReturned(s, r) ==
    /\ ops' = [ops EXCEPT ![s] = Idle]
    /\ IF r.ret = "ok"
       THEN /\ textarea' = EmptyText
            /\ textHistory' = <<EmptyText>>
            /\ textIndex' = 0
            /\ UNCHANGED <<isTyping, phase, snapTimer, saveTimer>>
       ELSE UNCHANGED viewVars

\* The view's fetchStash after `await this.plugin.fetchStash(stashId)`
\* (scratchpadview.ts:388-401).
fetchStashReturned(s, r) ==
    IF r.note = <<>>
    THEN ops' = [ops EXCEPT ![s] = Idle] /\ UNCHANGED viewVars
    ELSE LET stash == r.note[1]
             currentContent == trim(textarea)
         IN IF currentContent # EmptyText /\ currentContent # stash.content
               /\ settings.autoStashOnFetch
            THEN LET p == prelude("stash", currentContent, settings)
                 IN /\ ops' = [ops EXCEPT ![s] =
                                  Started("stash", currentContent, "fetchStash.stash",
                                          <<stash>>)]
                    /\ IF p = "null" THEN showStash(stash) ELSE UNCHANGED viewVars
            ELSE ops' = [ops EXCEPT ![s] = Idle] /\ showStash(stash)

\* The view's fetchStash after `await this.plugin.stashContent(currentContent)`
\* (scratchpadview.ts:396-405).
stashContentReturned(s, op, r) ==
    /\ ops' = [ops EXCEPT ![s] = Idle]
    /\ IF r.ret # "ok" THEN UNCHANGED viewVars ELSE showStash(op.held[1])

\* The call in slot s returns or throws, and its caller runs on.
Finish(s, op, data, r) ==
    /\ done' = Completed(op.kind, op.arg, op.before, op.migrated, op.at, op.failed,
                          data, r)
    /\ demoted' = IF scenario = "demote" /\ op.kind = "new" /\ r.ret = "ok"
                     /\ data.currentStash # <<>>
                     /\ NonBlank(data.currentStash[1].content)
                  THEN Append(demoted, data.currentStash[1])
                  ELSE demoted
    /\ CASE op.owner = "onOpen" -> onOpenLoaded(s, r)
         [] op.owner = "createNewStash" -> createNewStashReturned(s, r)
         [] op.owner = "fetchStash" -> fetchStashReturned(s, r)
         [] op.owner = "fetchStash.stash" -> stashContentReturned(s, op, r)
         [] OTHER -> ops' = [ops EXCEPT ![s] = Idle] /\ UNCHANGED viewVars
    /\ pages' = IF scenario # "clock" THEN pages
                ELSE IF r.write THEN NoPages
                ELSE IF op.kind # "get" THEN pages
                ELSE IF op.arg.offset = 0
                     THEN [limit |-> op.arg.limit, got |-> <<r.note>>]
                     ELSE [pages EXCEPT !.got = Append(@, r.note)]
    /\ fetched' = IF /\ scenario = "switch"
                     /\ op.owner = "fetchStash"
                     /\ r.write
                     /\ trim(textarea) # EmptyText
                     /\ trim(textarea) # r.note[1].content
                     /\ settings.autoStashOnFetch
                  THEN <<[p |-> trim(textarea), s |-> r.note[1].content]>>
                  ELSE fetched
    /\ shown' = IF scenario = "replace" /\ Editor' # Editor THEN {textarea'} ELSE shown
    /\ UNCHANGED <<scenario, burst, canvasVars, lastAction, prev, pushes, rt, actions>>

\* loadScratchpadContent has returned data to the call in slot s, which runs on
\* to its write or to its end.
Resume(s, op, data) ==
    LET r == IF op.nolist
             THEN afterLoadNoList(op.kind, op.arg, data, generateId, now, settings)
             ELSE afterLoad(op.kind, op.arg, data, generateId, now, settings)
    IN /\ nextId' = IF r.usedId THEN nextId + 1 ELSE nextId
       /\ IF r.write
          THEN /\ ops' = [ops EXCEPT ![s] = [op EXCEPT !.pc = "write", !.data = data,
                                                       !.out = r, !.at = now]]
               /\ UNCHANGED <<done, viewVars, ghostVars, canvasVars>>
          ELSE Finish(s, [op EXCEPT !.at = now], data, r)

\* A caller starts a store method.
Begin(kind, arg, owner) ==
    /\ FreeSlots # {}
    /\ scenario \in Sequential => InFlight = 0
    /\ kind \in {"save", "new", "stash"} \/ owner = "fetchStash"
           => nextId + InFlight <= IdLimit
    /\ file.kind = "legacy" => nextId + InFlight < IdLimit
    /\ ops' = [ops EXCEPT ![Lowest(FreeSlots)] = Started(kind, arg, owner, <<>>)]
    /\ done' = IF prelude(kind, arg, settings) = "load" THEN done
               ELSE Completed(kind, arg, file, FALSE, now, FALSE, file.data,
                              Outcome(prelude(kind, arg, settings), FALSE, file.data,
                                      <<>>, FALSE))

\* A store method is called on the plugin directly.
Call(kind, arg) ==
    /\ Begin(kind, arg, "direct")
    /\ UNCHANGED <<file, settings, nextId, now, viewVars, ghostVars, canvasVars>>

\* adapter.exists resolves (main.ts:153).
StepExists(s) ==
    /\ ops[s].pc = "exists"
    /\ IF file.kind = "absent"
       THEN Resume(s, ops[s], EmptyData)
       ELSE /\ ops' = [ops EXCEPT ![s].pc = "read"]
            /\ UNCHANGED <<nextId, done, viewVars, ghostVars, canvasVars>>
    /\ UNCHANGED <<file, settings, now>>

\* migrated that drops the legacy text.
migrated_losesText(text, id, t) == ScratchpadData(<<StashNote(id, t, t, EmptyText)>>, <<>>)

\* The current-schema data loadScratchpadContent makes of a legacy file
\* (main.ts:160-170). id and t are generateId() and Date.now().
migrated(text, id, t) == ScratchpadData(<<StashNote(id, t, t, text)>>, <<>>)

\* adapter.read resolves and the content is parsed (main.ts:154-177): the call
\* runs on with the parsed data, with empty data where JSON.parse threw, or
\* writes the migrated data first.
StepRead(s) ==
    /\ ops[s].pc = "read"
    /\ CASE file.kind = "legacy" ->
              /\ ops' = [ops EXCEPT ![s].pc = "migrate",
                                    ![s].data = migrated(file.text, generateId, now),
                                    ![s].migrated = TRUE]
              /\ nextId' = nextId + 1
              /\ UNCHANGED <<done, viewVars, ghostVars, canvasVars>>
         [] file.kind = "json" -> Resume(s, ops[s], file.data)
         [] file.kind = "nolist" -> Resume(s, [ops[s] EXCEPT !.nolist = TRUE], file.data)
         [] OTHER -> Resume(s, ops[s], EmptyData)
    /\ UNCHANGED <<file, settings, now>>

\* The adapter.write of the migration resolves (main.ts:171-172) and
\* loadScratchpadContent returns the migrated data.
StepMigrate(s) ==
    /\ ops[s].pc = "migrate"
    /\ file' = JsonFile(ops[s].data)
    /\ Resume(s, ops[s], ops[s].data)
    /\ UNCHANGED <<settings, now>>

\* The adapter.write of the migration rejects: the catch of main.ts:175-177
\* takes it, and loadScratchpadContent returns an empty store.
StepMigrateFails(s) ==
    /\ ops[s].pc = "migrate"
    /\ Resume(s, [ops[s] EXCEPT !.failed = TRUE], EmptyData)
    /\ UNCHANGED <<file, settings, now>>

\* adapter.read rejects (main.ts:154, outside the try): the method rejects.
StepReadFails(s) ==
    /\ ops[s].pc = "read"
    /\ Finish(s, ops[s], EmptyData, Outcome("readfailed", FALSE, EmptyData, <<>>, FALSE))
    /\ UNCHANGED <<file, settings, nextId, now>>

\* JSON.stringify(data) of the method's data: an object without a stashes
\* property where the loaded one had none and the method assigned none.
Serialized(op) ==
    IF op.nolist /\ op.kind # "clear"
    THEN NoListFile(op.out.data.currentStash)
    ELSE JsonFile(op.out.data)

\* What loadScratchpadContent returns of file f, absent or current-schema.
Loadable(f) == IF f.kind = "json" THEN f.data ELSE EmptyData

\* StepWrite with a test of the file against the data the method loaded: the
\* write of a method whose data is stale is refused.
StepWrite_rejectsStale(s) ==
    /\ ops[s].pc = "write"
    /\ IF Loadable(file) # ops[s].data
       THEN /\ file' = file
            /\ Finish(s, ops[s], ops[s].data,
                      Outcome("conflict", FALSE, ops[s].data, <<>>, ops[s].out.usedId))
       ELSE /\ file' = Serialized(ops[s])
            /\ Finish(s, ops[s], ops[s].data, ops[s].out)
    /\ UNCHANGED <<settings, nextId, now>>

\* adapter.write resolves: the file holds the serialized data.
StepWrite(s) ==
    /\ ops[s].pc = "write"
    /\ file' = Serialized(ops[s])
    /\ Finish(s, ops[s], ops[s].data, ops[s].out)
    /\ UNCHANGED <<settings, nextId, now>>

\* The method's adapter.write rejects: the file is as it was and the method
\* rejects.
StepWriteFails(s) ==
    /\ ops[s].pc = "write"
    /\ Finish(s, [ops[s] EXCEPT !.failed = TRUE], ops[s].data,
              Outcome("writefailed", TRUE, ops[s].data, <<>>, ops[s].out.usedId))
    /\ UNCHANGED <<file, settings, nextId, now>>

\* Time passes.
Tick ==
    /\ now < MaxClock
    /\ now' = now + 1
    /\ UNCHANGED <<file, settings, ops, nextId, done, viewVars, ghostVars, canvasVars>>

SaveCall(t) == Call("save", t)
NewCall(t) == Call("new", t)
StashCall(t) == Call("stash", t)
FetchCall(id) == Call("fetch", id)
DeleteCall(id) == Call("delete", id)
ClearCall == Call("clear", <<>>)

GetCall(limit, offset) == Call("get", [limit |-> limit, offset |-> offset])

\* A caller pages through the list: getStashes(L, 0), then getStashes(L, L),
\* getStashes(L, 2L), ... until a page comes back empty. The drawer
\* (scratchpadview.ts:257-283) pages with L = 10 and passes the number of notes
\* loaded so far, the same offsets as long as the pages come back full.
PageCall(L) ==
    /\ pages.limit = L /\ pages.got # <<>> => pages.got[Len(pages.got)] # <<>>
    /\ GetCall(L, IF pages.limit = L THEN Len(pages.got) * L ELSE 0)

\* Ids a caller can pass: those handed out so far, and 0, which is never one.
KnownIds == 0..(nextId - 1)

\* ------------------------------------------------------- the view's handlers

\* onOpen up to `await this.loadContentFromPlugin()` (scratchpadview.ts:44-53).
onOpen ==
    /\ phase = "constructed"
    /\ phase' = "loading"
    /\ Begin("load", <<>>, "onOpen")
    /\ UNCHANGED <<textarea, textHistory, textIndex, isTyping, snapTimer, saveTimer>>
    /\ UNCHANGED <<file, settings, nextId, now, ghostVars, canvasVars>>

\* The debounced callback of scratchpadview.ts:117-123 fires:
\* saveContentToPlugin (scratchpadview.ts:505-508).
AutoSaveFire ==
    /\ saveTimer > 0
    /\ saveTimer' = saveTimer - 1
    /\ Begin("save", textarea, "saveContentToPlugin")
    /\ burst' = IF scenario = "debounce" THEN [burst EXCEPT !.save = @ + 1] ELSE burst
    /\ UNCHANGED <<textarea, textHistory, textIndex, isTyping, phase, snapTimer>>
    /\ UNCHANGED <<file, settings, nextId, now, canvasVars>>
    /\ UNCHANGED <<scenario, lastAction, prev, pushes, rt, demoted, actions, pages, shown, fetched>>

\* The Clear button (scratchpadview.ts:182-191), the confirmation accepted
\* where one is asked for.
ClearClick ==
    /\ UserCan
    /\ Remember
    /\ textarea' = EmptyText
    /\ textHistory' = <<EmptyText>>
    /\ textIndex' = 0
    /\ Begin("save", EmptyText, "saveContentToPlugin")
    /\ lastAction' = "clear"
    /\ fetched' = <<>>
    /\ shown' = IF scenario = "replace" THEN {EmptyText} ELSE shown
    /\ UNCHANGED <<isTyping, phase, snapTimer, saveTimer, scenario, burst, canvasVars, pushes, rt, demoted, pages>>
    /\ UNCHANGED <<file, settings, nextId, now>>

\* The New button: the view's createNewStash up to its await
\* (scratchpadview.ts:442-446).
NewClick ==
    /\ UserCan
    /\ Remember
    /\ Begin("new", textarea, "createNewStash")
    /\ lastAction' = "new"
    /\ fetched' = <<>>
    /\ UNCHANGED <<viewVars, scenario, burst, canvasVars, pushes, rt, demoted, pages, shown>>
    /\ UNCHANGED <<file, settings, nextId, now>>

\* A click on a stash card: the view's fetchStash up to its first await
\* (scratchpadview.ts:383-387).
FetchClick(id) ==
    /\ UserCan
    /\ Remember
    /\ Begin("fetch", id, "fetchStash")
    /\ lastAction' = "fetch"
    /\ fetched' = <<>>
    /\ UNCHANGED <<viewVars, scenario, burst, canvasVars, pushes, rt, demoted, pages, shown>>
    /\ UNCHANGED <<file, settings, nextId, now>>

\* ------------------------------------------------- the drawing canvas
\* The canvas of the view with the drawing surface (part_000). An image is the
\* sequence of the strokes on it; the canvas has a 2d context and is laid out
\* (getBoundingClientRect is not empty).

\* The surface after resizeCanvas (part_000:209-234): cleared, and the
\* snapshot at the cursor put back where the cursor is on one.
resizeCanvas(h, i) == IF i >= 0 THEN h[i + 1] ELSE Blank

\* saveCanvasSnapshot (part_000:236-248): the redo branch is cut, the image
\* of the surface is pushed and the cursor is on it.
saveCanvasSnapshot(h, i, image) ==
    LET cut == IF i < Len(h) - 1 THEN slice(h, i + 1) ELSE h
        pushed == Append(cut, image)
    IN [canvasHistory |-> pushed, canvasIndex |-> Len(pushed) - 1]

\* The history and cursor after undoCanvas (part_000:250-258).
undoCanvas(h, i) ==
    IF i <= 0
    THEN [canvasHistory |-> h, canvasIndex |-> -1]
    ELSE [canvasHistory |-> h, canvasIndex |-> i - 1]

\* The history and cursor after redoCanvas (part_000:260-264).
redoCanvas(h, i) ==
    IF i >= Len(h) - 1
    THEN [canvasHistory |-> h, canvasIndex |-> i]
    ELSE [canvasHistory |-> h, canvasIndex |-> i + 1]

\* What a handler of the canvas leaves alone.
CanvasFrame ==
    /\ actions' = actions + 1
    /\ UNCHANGED <<textarea, textHistory, textIndex, isTyping, phase, snapTimer, saveTimer>>
    /\ UNCHANGED <<scenario, prev, pushes, rt, demoted, pages, shown, fetched, burst>>
    /\ UNCHANGED storeVars

CanvasUserCan ==
    /\ phase = "open"
    /\ actions < (IF scenario = "strokes" THEN MaxGestures ELSE MaxCanvasActions)

\* onOpen of the drawing view (part_000:37-53): the canvas is sized, and the
\* first snapshots of the canvas and of the text are taken.
onOpenDrawing ==
    /\ phase = "constructed"
    /\ phase' = "open"
    /\ LET image == resizeCanvas(canvasHistory, canvasIndex)
           r == saveCanvasSnapshot(canvasHistory, canvasIndex, image)
           t == saveTextSnapshot(textHistory, textIndex, textarea)
       IN /\ surface' = image
          /\ canvasHistory' = r.canvasHistory
          /\ canvasIndex' = r.canvasIndex
          /\ textHistory' = t.textHistory
          /\ textIndex' = t.textIndex
    /\ lastAction' = "onOpen"
    /\ UNCHANGED <<textarea, isTyping, snapTimer, saveTimer>>
    /\ UNCHANGED <<scenario, prev, pushes, rt, demoted, pages, shown, fetched, burst, actions>>
    /\ UNCHANGED storeVars

\* A stroke k is drawn and the pointer released: startDrawing, draw,
\* stopDrawing (part_000:161-192).
Stroke(k) ==
    /\ CanvasUserCan
    /\ LET image == Append(surface, k)
           r == saveCanvasSnapshot(canvasHistory, canvasIndex, image)
       IN /\ surface' = image
          /\ canvasHistory' = r.canvasHistory
          /\ canvasIndex' = r.canvasIndex
    /\ lastAction' = "stroke"
    /\ CanvasFrame

\* The "Clear drawing" button (part_000:126-132).
ClearDrawing ==
    /\ CanvasUserCan
    /\ LET r == saveCanvasSnapshot(<<>>, -1, resizeCanvas(<<>>, -1))
       IN /\ surface' = resizeCanvas(<<>>, -1)
          /\ canvasHistory' = r.canvasHistory
          /\ canvasIndex' = r.canvasIndex
    /\ lastAction' = "clearDrawing"
    /\ CanvasFrame

\* The undo hotkey with the canvas active (part_000:303-305).
UndoCanvas ==
    /\ CanvasUserCan
    /\ LET r == undoCanvas(canvasHistory, canvasIndex)
       IN /\ canvasHistory' = r.canvasHistory
          /\ canvasIndex' = r.canvasIndex
          /\ surface' = resizeCanvas(r.canvasHistory, r.canvasIndex)
    /\ lastAction' = IF canvasIndex <= 0 THEN "undoCanvas.oldest" ELSE "undoCanvas"
    /\ CanvasFrame

\* The redo hotkey with the canvas active (part_000:306-308).
RedoCanvas ==
    /\ CanvasUserCan
    /\ LET r == redoCanvas(canvasHistory, canvasIndex)
       IN /\ canvasHistory' = r.canvasHistory
          /\ canvasIndex' = r.canvasIndex
          /\ surface' = IF r.canvasIndex = canvasIndex THEN surface
                        ELSE resizeCanvas(r.canvasHistory, r.canvasIndex)
    /\ lastAction' = IF lastAction = "undoCanvas.oldest" THEN "redoCanvas.afterOldest"
                     ELSE "redoCanvas"
    /\ CanvasFrame

\* onResize (part_000:60-63).
onResize ==
    /\ CanvasUserCan
    /\ surface' = resizeCanvas(canvasHistory, canvasIndex)
    /\ lastAction' = "onResize"
    /\ UNCHANGED <<canvasHistory, canvasIndex>>
    /\ CanvasFrame

\* ---------------------------------------------------------- specifications

\* The text history alone: the user alternates the editor between two texts,
\* with undo and redo at any time.
NextText ==
    \/ \E t \in HistTexts : Input(t)
    \/ SnapshotFire
    \/ Undo
    \/ Redo
    \/ \E n \in 0..MaxRoundTrip : RoundTripStart(n)
    \/ RoundTripUndo
    \/ RoundTripRedo
    \/ RoundTripEnd

InitText ==
    /\ InitStoreEmpty
    /\ settings.maxStashes = 3 /\ settings.autoEvictOldest
    /\ InitOpenedEmpty
    /\ scenario = "text"

SpecText == InitText /\ [][NextText]_vars

\* Consecutive pushes of pairwise-distinct texts: the user types one more
\* character after each committed snapshot, always at the newest entry.
InputFresh ==
    /\ textIndex = Len(textHistory) - 1
    /\ pushes < MAX_TEXT_HISTORY_SIZE + MaxEvict
    /\ Input(FreshText(pushes + 1))

NextCap ==
    \/ InputFresh
    \/ SnapshotFire
    \/ Undo
    \/ Redo

InitCap ==
    /\ InitStoreEmpty
    /\ settings.maxStashes = 3 /\ settings.autoEvictOldest
    /\ InitOpenedEmpty
    /\ scenario = "cap"

SpecCap == InitCap /\ [][NextCap]_vars

\* The history variables of a run that starts.
InitView0Ghosts ==
    /\ lastAction = "none"
    /\ prev = [textarea |-> EmptyText, textHistory |-> <<>>, textIndex |-> -1]
    /\ pushes = 0
    /\ rt = NoRoundTrip
    /\ demoted = <<>>
    /\ pages = NoPages
    /\ shown = {}
    /\ actions = 0
    /\ fetched = <<>>
    /\ burst = NoBurst
    /\ InitCanvas0

\* The view as constructed, before onOpen (scratchpadview.ts:8-10).
InitView0 ==
    /\ textarea = EmptyText
    /\ textHistory = <<>>
    /\ textIndex = -1
    /\ isTyping = FALSE
    /\ phase = "constructed"
    /\ snapTimer = 0
    /\ saveTimer = 0
    /\ lastAction = "none"
    /\ prev = [textarea |-> EmptyText, textHistory |-> <<>>, textIndex |-> -1]
    /\ pushes = 0
    /\ rt = NoRoundTrip
    /\ demoted = <<>>
    /\ pages = NoPages
    /\ shown = {}
    /\ actions = 0
    /\ fetched = <<>>
    /\ burst = NoBurst
    /\ InitCanvas0

\* The store alone, from an empty store: any caller, any interleaving.
Init ==
    /\ InitStoreEmpty
    /\ settings.maxStashes \in {1, 2}
    /\ InitView0
    /\ scenario = "store"

Next ==
    \/ \E t \in PlainTexts : SaveCall(t)
    \/ \E t \in PlainTexts : NewCall(t)
    \/ \E t \in PlainTexts : StashCall(t)
    \/ \E id \in KnownIds : FetchCall(id)
    \/ \E id \in KnownIds : DeleteCall(id)
    \/ ClearCall
    \/ \E s \in 1..MaxInflight : StepExists(s)
    \/ \E s \in 1..MaxInflight : StepRead(s)
    \/ \E s \in 1..MaxInflight : StepWrite(s)

Spec == Init /\ [][Next]_vars

\* The store alone, one call at a time.
InitSeq ==
    /\ InitStoreEmpty
    /\ settings.maxStashes \in {1, 3}
    /\ InitView0
    /\ scenario = "seq"

NextSeq ==
    \/ \E t \in SaveTexts : SaveCall(t)
    \/ \E t \in StoreTexts : NewCall(t)
    \/ \E t \in StoreTexts : StashCall(t)
    \/ \E id \in KnownIds : FetchCall(id)
    \/ \E id \in KnownIds : DeleteCall(id)
    \/ ClearCall
    \/ \E s \in 1..MaxInflight : StepExists(s)
    \/ \E s \in 1..MaxInflight : StepRead(s)
    \/ \E s \in 1..MaxInflight : StepWrite(s)

SpecSeq == InitSeq /\ [][NextSeq]_vars

\* createNewStash calls one after the other, with the current note edited in
\* between, automatic eviction on.
InitDemote ==
    /\ InitStoreEmpty
    /\ settings.maxStashes \in {1, 2}
    /\ settings.autoEvictOldest
    /\ InitView0
    /\ scenario = "demote"

NextDemote ==
    \/ \E t \in SaveTexts : SaveCall(t)
    \/ \E t \in StoreTexts : NewCall(t)
    \/ \E s \in 1..MaxInflight : StepExists(s)
    \/ \E s \in 1..MaxInflight : StepRead(s)
    \/ \E s \in 1..MaxInflight : StepWrite(s)
    \/ Tick

SpecDemote == InitDemote /\ [][NextDemote]_vars

\* The store alone, one call at a time, with time passing and the list read
\* page by page.
InitClock ==
    /\ InitStoreEmpty
    /\ settings.maxStashes = 3
    /\ settings.autoEvictOldest
    /\ InitView0
    /\ scenario = "clock"

NextClock ==
    \/ \E t \in PlainTexts : SaveCall(t)
    \/ NewCall(<<"a">>)
    \/ StashCall(<<"a">>)
    \/ \E id \in KnownIds : FetchCall(id)
    \/ \E L \in 1..MaxPage : PageCall(L)
    \/ \E s \in 1..MaxInflight : StepExists(s)
    \/ \E s \in 1..MaxInflight : StepRead(s)
    \/ \E s \in 1..MaxInflight : StepWrite(s)
    \/ Tick

SpecClock == InitClock /\ [][NextClock]_vars

\* The store an earlier session has left: saveScratchpadContent("b") and then
\* createNewStash("a") on an empty store.
PriorStore ==
    JsonFile(ScratchpadData(<<StashNote(2, 0, 0, <<"a">>)>>,
                            <<StashNote(1, 0, 0, <<"b">>)>>))

\* The store alone, one call at a time, on every kind of backing file.
InitLoad ==
    /\ file \in {AbsentFile, PriorStore, MalformedFile}
                \cup {LegacyFile(t) : t \in PlainTexts}
    /\ settings \in SettingsChoices
    /\ settings.maxStashes = 1
    /\ ops = [s \in 1..MaxInflight |-> Idle]
    /\ nextId = 3
    /\ now = 0
    /\ done = NothingDone
    /\ InitView0
    /\ scenario = "load"

NextLoad ==
    \/ \E t \in PlainTexts : SaveCall(t)
    \/ \E t \in PlainTexts : StashCall(t)
    \/ \E L \in 1..MaxPage, k \in 0..MaxPage : GetCall(L, k)
    \/ \E s \in 1..MaxInflight : StepExists(s)
    \/ \E s \in 1..MaxInflight : StepRead(s)
    \/ \E s \in 1..MaxInflight : StepMigrate(s)
    \/ \E s \in 1..MaxInflight : StepWrite(s)

SpecLoad == InitLoad /\ [][NextLoad]_vars

\* The store alone, one call at a time, with a list of one note at most, notes
\* of one character at most and time passing; the autosave is handed texts of
\* any length.
InitLimits ==
    /\ InitStoreEmpty
    /\ settings.maxStashes = 1
    /\ InitView0
    /\ scenario = "limits"

NextLimits ==
    \/ \E t \in {<<"a">>, <<"a", "b">>} : SaveCall(t)
    \/ \E t \in {<<"a">>, <<"a", "b">>} : NewCall(t)
    \/ \E t \in {<<"a">>, <<"a", "b">>} : StashCall(t)
    \/ \E id \in KnownIds : FetchCall(id)
    \/ \E s \in 1..MaxInflight : StepExists(s)
    \/ \E s \in 1..MaxInflight : StepRead(s)
    \/ \E s \in 1..MaxInflight : StepWrite(s)
    \/ Tick

SpecLimits == InitLimits /\ [][NextLimits]_vars

\* The store alone from an empty store, calls interleaved, the last two calls
\* that ended kept.
InitRace ==
    /\ InitStoreEmpty
    /\ settings.maxStashes = 1
    /\ settings.autoEvictOldest
    /\ InitView0
    /\ scenario = "race"

NextRace ==
    \/ SaveCall(<<"a">>)
    \/ NewCall(<<"a">>)
    \/ \E id \in KnownIds : FetchCall(id)
    \/ \E s \in 1..MaxInflight : StepExists(s)
    \/ \E s \in 1..MaxInflight : StepRead(s)
    \/ \E s \in 1..MaxInflight : StepWrite(s)

SpecRace == InitRace /\ [][NextRace]_vars

\* The store alone, one call at a time, on any kind of file, with an adapter
\* whose read and write may reject.
InitFault ==
    /\ file \in {AbsentFile, PriorStore, MalformedFile, LegacyFile(<<"a">>),
                 NoListFile(<<>>), NoListFile(<<StashNote(2, 0, 0, <<"a">>)>>)}
    /\ settings \in SettingsChoices
    /\ settings.maxStashes = 1
    /\ ops = [s \in 1..MaxInflight |-> Idle]
    /\ nextId = 3
    /\ now = 0
    /\ done = NothingDone
    /\ InitView0
    /\ scenario = "fault"

NextFault ==
    \/ \E t \in PlainTexts : SaveCall(t)
    \/ \E t \in PlainTexts : NewCall(t)
    \/ \E t \in PlainTexts : StashCall(t)
    \/ \E id \in KnownIds : FetchCall(id)
    \/ \E id \in KnownIds : DeleteCall(id)
    \/ ClearCall
    \/ GetCall(1, 0)
    \/ \E s \in 1..MaxInflight : StepExists(s)
    \/ \E s \in 1..MaxInflight : StepRead(s)
    \/ \E s \in 1..MaxInflight : StepReadFails(s)
    \/ \E s \in 1..MaxInflight : StepMigrate(s)
    \/ \E s \in 1..MaxInflight : StepMigrateFails(s)
    \/ \E s \in 1..MaxInflight : StepWrite(s)
    \/ \E s \in 1..MaxInflight : StepWriteFails(s)

SpecFault == InitFault /\ [][NextFault]_vars

\* The store alone on a legacy file: any caller, any interleaving.
InitMigrate ==
    /\ file \in {LegacyFile(t) : t \in PlainTexts}
    /\ settings \in SettingsChoices
    /\ settings.maxStashes = 1
    /\ settings.autoEvictOldest
    /\ ops = [s \in 1..MaxInflight |-> Idle]
    /\ nextId = 1
    /\ now = 0
    /\ done = NothingDone
    /\ InitView0
    /\ scenario = "migrate"

NextMigrate ==
    \/ \E t \in PlainTexts : SaveCall(t)
    \/ \E t \in PlainTexts : StashCall(t)
    \/ GetCall(1, 0)
    \/ \E s \in 1..MaxInflight : StepExists(s)
    \/ \E s \in 1..MaxInflight : StepRead(s)
    \/ \E s \in 1..MaxInflight : StepMigrate(s)
    \/ \E s \in 1..MaxInflight : StepWrite(s)

SpecMigrate == InitMigrate /\ [][NextMigrate]_vars

\* The text history after the view has opened on PriorStore and the user has
\* cleared and retyped the note until the history is full.
LongHistory ==
    [j \in 1..MAX_TEXT_HISTORY_SIZE |-> IF j % 2 = 1 THEN <<"a">> ELSE EmptyText]

\* The texts the user types in the view.
ViewTexts == {EmptyText, <<"a">>, <<"b">>}

ViewSettings ==
    [maxStashes |-> 1, autoEvictOldest |-> FALSE, maxNoteLength |-> 1,
     autoStashOnFetch |-> TRUE]

\* The view on top of the store: a view just constructed, on an empty store or
\* on the store of an earlier session, or a view in the middle of a long
\* session, every edit committed and saved.
InitView ==
    /\ settings = ViewSettings
    /\ ops = [s \in 1..MaxInflight |-> Idle]
    /\ now = 0
    /\ done = NothingDone
    /\ isTyping = FALSE
    /\ snapTimer = 0
    /\ saveTimer = 0
    /\ lastAction = "none"
    /\ prev = [textarea |-> EmptyText, textHistory |-> <<>>, textIndex |-> -1]
    /\ pushes = 0
    /\ rt = NoRoundTrip
    /\ demoted = <<>>
    /\ pages = NoPages
    /\ shown = {}
    /\ actions = 0
    /\ fetched = <<>>
    /\ burst = NoBurst
    /\ InitCanvas0
    /\ scenario = "view"
    /\ \/ /\ phase = "constructed"
          /\ textarea = EmptyText /\ textHistory = <<>> /\ textIndex = -1
          /\ \/ file = AbsentFile /\ nextId = 1
             \/ file = PriorStore /\ nextId = 3
       \/ /\ phase = "open"
          /\ textarea = EmptyText
          /\ textHistory = LongHistory
          /\ textIndex = MAX_TEXT_HISTORY_SIZE - 1
          /\ file = JsonFile(ScratchpadData(<<StashNote(2, 0, 0, EmptyText)>>,
                                            <<StashNote(1, 0, 0, <<"b">>)>>))
          /\ nextId = 3

NextView ==
    \/ onOpen
    \/ \E t \in ViewTexts : Input(t)
    \/ SnapshotFire
    \/ AutoSaveFire
    \/ Undo
    \/ Redo
    \/ ClearClick
    \/ NewClick
    \/ \E id \in 1..(nextId - 1) : FetchClick(id)
    \/ \E s \in 1..MaxInflight : StepExists(s)
    \/ \E s \in 1..MaxInflight : StepRead(s)
    \/ \E s \in 1..MaxInflight : StepWrite(s)

SpecView == InitView /\ [][NextView]_vars

\* The texts the user types before switching notes: a new one, and one
\* longer than maxNoteLength.
SwitchTexts == {<<"c">>, <<"c", "d">>}

\* Switching notes: the view is open on the store of an earlier session and
\* shows its current note; the user edits and clicks stash cards.
InitSwitch ==
    /\ settings \in {ViewSettings, [ViewSettings EXCEPT !.autoEvictOldest = TRUE]}
    /\ file = PriorStore
    /\ ops = [s \in 1..MaxInflight |-> Idle]
    /\ nextId = 3
    /\ now = 0
    /\ done = NothingDone
    /\ InitView0Ghosts
    /\ textarea = <<"a">>
    /\ textHistory = <<(<<"a">>)>>
    /\ textIndex = 0
    /\ isTyping = FALSE
    /\ phase = "open"
    /\ snapTimer = 0
    /\ saveTimer = 0
    /\ scenario = "switch"

NextSwitch ==
    \/ \E t \in SwitchTexts : Input(t)
    \/ SnapshotFire
    \/ AutoSaveFire
    \/ \E id \in 1..(nextId - 1) : FetchClick(id)
    \/ \E s \in 1..MaxInflight : StepExists(s)
    \/ \E s \in 1..MaxInflight : StepRead(s)
    \/ \E s \in 1..MaxInflight : StepWrite(s)

SpecSwitch == InitSwitch /\ [][NextSwitch]_vars

\* Replacing the editor's content: the view is constructed on the store of an
\* earlier session; the user opens it, edits, undoes and redoes, and replaces
\* the content with the Clear and New buttons and by clicking stash cards, one
\* store call at a time.
InitReplace ==
    /\ settings = [ViewSettings EXCEPT !.autoEvictOldest = TRUE]
    /\ file = PriorStore
    /\ ops = [s \in 1..MaxInflight |-> Idle]
    /\ nextId = 3
    /\ now = 0
    /\ done = NothingDone
    /\ InitView0Ghosts
    /\ InitView0
    /\ scenario = "replace"

NextReplace ==
    \/ onOpen
    \/ \E t \in ViewTexts : Input(t)
    \/ SnapshotFire
    \/ AutoSaveFire
    \/ Undo
    \/ Redo
    \/ ClearClick
    \/ NewClick
    \/ \E id \in 1..(nextId - 1) : FetchClick(id)
    \/ \E s \in 1..MaxInflight : StepExists(s)
    \/ \E s \in 1..MaxInflight : StepRead(s)
    \/ \E s \in 1..MaxInflight : StepWrite(s)

SpecReplace == InitReplace /\ [][NextReplace]_vars

\* Undo then redo anywhere: the view is open on an empty store; the user
\* types, the debounced snapshot fires or has not fired yet, and the user
\* presses the hotkeys.
InitUndoRedo ==
    /\ InitStoreEmpty
    /\ settings = ViewSettings
    /\ InitOpenedEmpty
    /\ scenario = "undoredo"

NextUndoRedo ==
    \/ \E t \in ViewTexts : Input(t)
    \/ SnapshotFire
    \/ Undo
    \/ Redo
    \/ UndoThenRedo
    \/ RoundTripUndo
    \/ RoundTripRedo
    \/ RoundTripEnd

SpecUndoRedo == InitUndoRedo /\ [][NextUndoRedo]_vars

\* The New button: the view is open on an empty store; the user types,
\* presses New and types on, one store call at a time.
InitNewStash ==
    /\ InitStoreEmpty
    /\ settings = [ViewSettings EXCEPT !.autoEvictOldest = TRUE, !.maxStashes = 3]
    /\ InitOpenedEmpty
    /\ scenario = "newstash"

NextNewStash ==
    \/ \E t \in ViewTexts : Input(t)
    \/ SnapshotFire
    \/ AutoSaveFire
    \/ NewClick
    \/ \E s \in 1..MaxInflight : StepExists(s)
    \/ \E s \in 1..MaxInflight : StepRead(s)
    \/ \E s \in 1..MaxInflight : StepWrite(s)

SpecNewStash == InitNewStash /\ [][NextNewStash]_vars

\* The debounced calls: the view is open on an empty store and the user
\* types; each timer fires at any moment after it was set.
InitDebounce ==
    /\ InitStoreEmpty
    /\ settings = ViewSettings
    /\ InitOpenedEmpty
    /\ scenario = "debounce"

NextDebounce ==
    \/ \E t \in ViewTexts : Input(t)
    \/ SnapshotFire
    \/ AutoSaveFire
    \/ \E s \in 1..MaxInflight : StepExists(s)
    \/ \E s \in 1..MaxInflight : StepRead(s)
    \/ \E s \in 1..MaxInflight : StepWrite(s)

SpecDebounce == InitDebounce /\ [][NextDebounce]_vars

\* The strokes the user draws.
Strokes == {1, 2}

\* The drawing view from its construction.
InitCanvas ==
    /\ InitStoreEmpty
    /\ settings = ViewSettings
    /\ InitView0
    /\ scenario = "canvas"

NextCanvas ==
    \/ onOpenDrawing
    \/ \E k \in Strokes : Stroke(k)
    \/ ClearDrawing
    \/ UndoCanvas
    \/ RedoCanvas
    \/ onResize

SpecCanvas == InitCanvas /\ [][NextCanvas]_vars

\* The drawing view in a long run of strokes, with undo and redo.
InitStrokes ==
    /\ InitStoreEmpty
    /\ settings = ViewSettings
    /\ InitView0
    /\ scenario = "strokes"

NextStrokes ==
    \/ onOpenDrawing
    \/ Stroke(1)
    \/ UndoCanvas
    \/ RedoCanvas

SpecStrokes == InitStrokes /\ [][NextStrokes]_vars

\* ------------------------------------------------------------------ claims

\* C1: in every persisted state, under any interleaving of the store methods
\* at their suspension points and with fresh generated ids, no note id is both
\* the current note's and in the stashes list, and no id is twice in the list.
C1_IdsDisjointAndUnique ==
    file.kind = "json" =>
        LET data == file.data
        IN /\ data.currentStash # <<>> =>
                  data.currentStash[1].id \notin IdsOf(data.stashes)
           /\ Cardinality(IdsOf(data.stashes)) = Len(data.stashes)

\* C1 witness: the file holds a current note and two stashed notes while a
\* call that loaded older data is about to overwrite it.
C1_Witness ==
    /\ scenario = "store"
    /\ file.kind = "json"
    /\ file.data.currentStash # <<>>
    /\ Len(file.data.stashes) = 2
    /\ \E s \in 1..MaxInflight :
           /\ ops[s].pc = "write"
           /\ ops[s].data # file.data
           /\ ops[s].kind = "fetch"

\* C2: from an empty store and with maxStashes fixed, the stashes list of
\* every persisted state holds at most maxStashes notes, with autoEvictOldest
\* on or off, under any interleaving of the store methods.
C2_StashesWithinLimit ==
    Len(file.data.stashes) <= settings.maxStashes

\* C2 witness: the list is full and a stashContent call that loaded a full
\* list has dropped the last entry and is about to write.
C2_Witness ==
    /\ scenario = "store"
    /\ settings.maxStashes = 2
    /\ Len(file.data.stashes) = 2
    /\ \E s \in 1..MaxInflight :
           /\ ops[s].pc = "write"
           /\ ops[s].kind = "stash"
           /\ Len(ops[s].data.stashes) = 2
           /\ Len(ops[s].out.data.stashes) = 2

\* The list createNewStash or stashContent is about to keep, before the limit
\* step, when the last completed call is one of the two and loaded done.pre.
GrownList ==
    IF done.kind = "stash" THEN <<done.arg>> \o done.pre.stashes
    ELSE IF done.pre.currentStash # <<>> /\ NonBlank(done.pre.currentStash[1].content)
         THEN <<done.pre.currentStash[1]>>
                  \o withoutId(done.pre.stashes, done.pre.currentStash[1].id)
         ELSE done.pre.stashes

\* The last completed call left the backing file as it found it and issued no
\* write.
Untouched == ~done.wrote /\ ~done.migrated /\ file = done.before

\* C11: with autoEvictOldest off, a createNewStash or stashContent call that
\* would make the stashes list longer than maxStashes throws the stash-limit
\* error, issues no write and leaves the persisted data as it was.
C11_LimitErrorChangesNothing ==
    (/\ done.kind \in {"new", "stash"}
     /\ done.ret \notin {"null", "toolong"}
     /\ ~settings.autoEvictOldest) =>
        /\ Len(GrownList) > settings.maxStashes <=> done.ret = "limit"
        /\ done.ret = "limit" => Untouched /\ done.note = <<>>

\* C11 witness: createNewStash threw the limit error on a store with a
\* non-blank current note and a full list.
C11_Witness ==
    /\ done.kind = "new"
    /\ done.ret = "limit"
    /\ ~settings.autoEvictOldest
    /\ file.kind = "json"
    /\ Len(file.data.stashes) = settings.maxStashes
    /\ file.data.currentStash # <<>>

\* C12: createNewStash and stashContent called with empty or whitespace-only
\* content return null, create no note, issue no write and leave the persisted
\* current note and list as they were.
C12_BlankContentChangesNothing ==
    (done.kind \in {"new", "stash"} /\ ~NonBlank(done.arg)) =>
        /\ done.ret = "null"
        /\ done.note = <<>>
        /\ Untouched

\* C12 witness: stashContent was called with a single blank on a store that
\* holds a current note and a stashed note.
C12_Witness ==
    /\ done.kind = "stash"
    /\ done.arg = <<" ">>
    /\ done.ret = "null"
    /\ file.kind = "json"
    /\ file.data.currentStash # <<>>
    /\ file.data.stashes # <<>>

\* C13 as stated: createNewStash(x) fails with the length condition, the store
\* unchanged, exactly when x.length > maxNoteLength, and succeeds for non-blank
\* x of exactly maxNoteLength characters.
C13_LengthErrorExactly ==
    done.kind = "new" =>
        /\ (done.ret = "toolong" /\ Untouched) <=> Len(done.arg) > settings.maxNoteLength
        /\ (NonBlank(done.arg) /\ Len(done.arg) = settings.maxNoteLength) =>
               done.ret = "ok"

\* C13 amended: for non-blank x, createNewStash(x) fails with the length
\* condition, the store unchanged, exactly when x.length > maxNoteLength; x of
\* exactly maxNoteLength characters passes the length test and succeeds unless
\* the stash limit is reached with autoEvictOldest off; blank x is rejected as
\* empty content whatever its length.
C13_LengthErrorForNonBlank ==
    done.kind = "new" =>
        /\ NonBlank(done.arg) =>
               /\ done.ret = "toolong" <=> Len(done.arg) > settings.maxNoteLength
               /\ done.ret = "toolong" => Untouched /\ done.note = <<>>
               /\ Len(done.arg) <= settings.maxNoteLength =>
                      /\ done.ret \in {"ok", "limit"}
                      /\ done.ret = "limit" <=>
                             /\ ~settings.autoEvictOldest
                             /\ Len(GrownList) > settings.maxStashes
        /\ ~NonBlank(done.arg) => done.ret = "null"

\* C13 witness: createNewStash threw the length error for content one
\* character longer than maxNoteLength, on a store holding a current note.
C13_Witness ==
    /\ done.kind = "new"
    /\ done.ret = "toolong"
    /\ Len(done.arg) = settings.maxNoteLength + 1
    /\ file.kind = "json"
    /\ file.data.currentStash # <<>>

\* The ids of the notes of a store: the current note's and the list's.
StoreIds(data) == IdsOf(data.currentStash) \cup IdsOf(data.stashes)

\* C14: a successful stashContent(content) leaves the current note exactly as
\* it was, and the list it writes is the old list with one new note in front,
\* of an id no note of the store had and of the given content, cut to
\* maxStashes.
C14_StashContentOnlyPrepends ==
    (done.kind = "stash" /\ done.ret = "ok") =>
        /\ done.post.currentStash = done.pre.currentStash
        /\ Len(done.note) = 1
        /\ done.note[1].content = done.arg
        /\ done.note[1].id \notin StoreIds(done.pre)
        /\ done.post.stashes = slice(done.note \o done.pre.stashes, settings.maxStashes)
        /\ done.wrote
        /\ file = JsonFile(done.post)

\* C14 witness: stashContent succeeded on a store with a current note and a
\* full list, so the tail of the list was evicted.
C14_Witness ==
    /\ done.kind = "stash"
    /\ done.ret = "ok"
    /\ done.pre.currentStash # <<>>
    /\ Len(done.pre.stashes) = settings.maxStashes
    /\ Len(done.post.stashes) = settings.maxStashes
    /\ done.post.stashes[1] = done.note[1]

\* C16: fetchStash(id) for an id that is neither the current note's nor in the
\* list returns null, issues no write and leaves the file as it was.
C16_FetchUnknownChangesNothing ==
    (done.kind = "fetch" /\ done.arg \notin StoreIds(done.pre)) =>
        /\ done.ret = "null"
        /\ done.note = <<>>
        /\ done.post = done.pre
        /\ Untouched

\* C16 witness: fetchStash returned null on a store that holds a current note
\* and stashed notes.
C16_Witness ==
    /\ done.kind = "fetch"
    /\ done.ret = "null"
    /\ done.arg \notin StoreIds(done.pre)
    /\ done.pre.currentStash # <<>>
    /\ done.pre.stashes # <<>>
    /\ file = JsonFile(done.pre)

\* C17: deleteStash(id) completes without error; for an id absent from the
\* store the written current note and list are the loaded ones; deleting the
\* same id again from the written store gives the written store; when id is the
\* current note's, the current note becomes absent and the list is unchanged.
C17_DeleteIdempotent ==
    done.kind = "delete" =>
        /\ done.ret = "ok"
        /\ file = JsonFile(done.post)
        /\ deleteStash(done.post, done.arg).data = done.post
        /\ done.arg \notin StoreIds(done.pre) => done.post = done.pre
        /\ (done.pre.currentStash # <<>> /\ done.pre.currentStash[1].id = done.arg) =>
               /\ done.post.currentStash = <<>>
               /\ done.post.stashes = done.pre.stashes

\* C17 witness: deleteStash was called with an id absent from a store that
\* holds a current note and stashed notes.
C17_Witness ==
    /\ done.kind = "delete"
    /\ done.arg \notin StoreIds(done.pre)
    /\ done.pre.currentStash # <<>>
    /\ done.pre.stashes # <<>>

\* C18: clearAllStashes writes a store with an empty list and the current note
\* it loaded, unchanged or still absent.
C18_ClearKeepsCurrent ==
    done.kind = "clear" =>
        /\ done.ret = "ok"
        /\ done.post.stashes = <<>>
        /\ done.post.currentStash = done.pre.currentStash
        /\ file = JsonFile(done.post)

\* C18 witness: clearAllStashes ran on a store with a current note and
\* stashed notes.
C18_Witness ==
    /\ done.kind = "clear"
    /\ done.pre.currentStash # <<>>
    /\ done.pre.stashes # <<>>
    /\ file.data.currentStash = done.pre.currentStash

\* C15: fetchStash(id) for an id found in the list writes a store whose list
\* is the loaded list without that note, the others in their order, and whose
\* current note is that note with the same id, createdAt and content and with
\* updatedAt set to the time of the call; the note that was current before is
\* neither current nor in the list afterwards.
C15_FetchMovesNoteToCurrent ==
    (/\ done.kind = "fetch"
     /\ findById(done.pre.stashes, done.arg) # <<>>
     /\ done.arg \notin IdsOf(done.pre.currentStash)) =>
        LET old == findById(done.pre.stashes, done.arg)[1]
        IN /\ done.ret = "ok"
           /\ done.post.stashes = SelectSeq(done.pre.stashes, LAMBDA n : n # old)
           /\ done.arg \notin IdsOf(done.post.stashes)
           /\ Len(done.post.currentStash) = 1
           /\ done.note = done.post.currentStash
           /\ done.post.currentStash[1].id = old.id
           /\ done.post.currentStash[1].createdAt = old.createdAt
           /\ done.post.currentStash[1].content = old.content
           /\ done.post.currentStash[1].updatedAt = done.at
           /\ IdsOf(done.pre.currentStash) \cap StoreIds(done.post) = {}
           /\ file = JsonFile(done.post)

\* C15 witness: a note stashed at an earlier time was fetched from a list of
\* two while another note was current.
C15_Witness ==
    /\ done.kind = "fetch"
    /\ done.ret = "ok"
    /\ done.wrote
    /\ done.pre.currentStash # <<>>
    /\ Len(done.pre.stashes) = 2
    /\ done.pre.stashes[2].id = done.arg
    /\ done.pre.stashes[2].updatedAt < done.at
    /\ file = JsonFile(done.post)

\* The pages fetched so far, one after the other.
RECURSIVE Concatenated(_)
Concatenated(got) ==
    IF got = <<>> THEN <<>> ELSE got[1] \o Concatenated(Tail(got))

\* C19: while the store is not modified, the pages getStashes(L, 0),
\* getStashes(L, L), ... fetched so far hold L notes each up to the first
\* shorter one, after which they are empty, and one after the other they are
\* distinct notes of the list in descending order of updatedAt, none newer
\* than a note already paged being left out and the current note never among
\* them; once a page shorter than L has come back they hold every note of the
\* list.
C19_PagesPartitionSortedList ==
    pages.got # <<>> =>
        LET L == pages.limit
            got == pages.got
            flat == Concatenated(pages.got)
            list == file.data.stashes
        IN /\ \A i \in 1..Len(got) : Len(got[i]) <= L
           /\ \A i, j \in 1..Len(got) : i < j => Len(got[i]) = L \/ got[j] = <<>>
           /\ \A i, j \in 1..Len(flat) :
                  i < j => /\ flat[i].updatedAt >= flat[j].updatedAt
                           /\ flat[i].id # flat[j].id
           /\ \A i \in 1..Len(flat) : \E j \in 1..Len(list) : list[j] = flat[i]
           /\ \A j \in 1..Len(list) :
                  list[j].id \notin IdsOf(flat) =>
                      \A i \in 1..Len(flat) : flat[i].updatedAt >= list[j].updatedAt
           /\ IdsOf(file.data.currentStash) \cap IdsOf(flat) = {}
           /\ (\E i \in 1..Len(got) : Len(got[i]) < L) => Len(flat) = Len(list)

\* C19 witness: a list of three notes that is not in descending order of
\* updatedAt was paged to its end with L = 2, beside a current note.
C19_Witness ==
    /\ pages.limit = 2
    /\ Len(pages.got) = 2
    /\ Len(pages.got[2]) = 1
    /\ Len(file.data.stashes) = 3
    /\ Concatenated(pages.got) # file.data.stashes
    /\ file.data.currentStash # <<>>

\* C20 as stated: whatever the backing file holds, a getStashes call issues no
\* write and the file is the same after the call as before it.
C20_GetStashesNeverWrites ==
    done.kind = "get" => Untouched

\* C20 amended: on an absent, current-schema or malformed file a getStashes
\* call issues no write and leaves the file as it was; on a legacy file the
\* load it performs writes the migrated current-schema data once, and
\* getStashes writes nothing after that.
C20_GetStashesWritesOnlyMigration ==
    done.kind = "get" =>
        /\ done.ret = "ok"
        /\ ~done.wrote
        /\ done.post = done.pre
        /\ done.before.kind # "legacy" => ~done.migrated /\ file = done.before
        /\ done.before.kind = "legacy" =>
               /\ done.migrated
               /\ file = JsonFile(done.pre)
               /\ done.pre.stashes = <<>>
               /\ Len(done.pre.currentStash) = 1
               /\ done.pre.currentStash[1].content = done.before.text

\* C20 witness: getStashes returned a page of a current-schema file, which is
\* still the file.
C20_Witness ==
    /\ done.kind = "get"
    /\ done.before.kind = "json"
    /\ done.before.data.stashes # <<>>
    /\ done.note # <<>>
    /\ file = done.before

\* data is what the migration makes of the legacy file before: a current note
\* of the legacy text, its preview and an id, and an empty list.
MigratedFrom(data, before) ==
    /\ before.kind = "legacy"
    /\ data.stashes = <<>>
    /\ Len(data.currentStash) = 1
    /\ data.currentStash[1].content = before.text
    /\ data.currentStash[1].preview = generatePreview(before.text)
    /\ data.currentStash[1].id \in KnownIds

\* C21: a load of a legacy file {text: t} returns a store whose current note
\* has content t, preview generatePreview(t) and the id generateId handed out
\* for it, and whose list is empty; when the load has returned, the file holds
\* that store in the current schema.
C21_LegacyLoadMigrates ==
    /\ \A s \in 1..MaxInflight :
           (ops[s].migrated /\ ops[s].pc = "write") =>
               /\ MigratedFrom(ops[s].data, ops[s].before)
               /\ file = JsonFile(ops[s].data)
               /\ ops[s].out.note # <<>> =>
                      ops[s].out.note[1].id # ops[s].data.currentStash[1].id
    /\ (done.migrated /\ ~done.wrote) =>
           /\ MigratedFrom(done.pre, done.before)
           /\ file = JsonFile(done.pre)
    /\ \A s \in 1..MaxInflight :
           ops[s].pc = "migrate" => file.kind = "legacy" /\ ops[s].migrated

\* C21 witness: a load that migrated the legacy text "a" has returned to a
\* call that issues no write of its own, and the file holds the migrated store.
C21_Witness ==
    /\ done.migrated
    /\ ~done.wrote
    /\ done.before = LegacyFile(<<"a">>)
    /\ file.kind = "json"
    /\ file.data.currentStash[1].content = <<"a">>

\* C22: starting from a legacy file, whatever store calls run and however
\* they interleave, the migration branch is taken by one load at most, and
\* every call that has loaded the store holds the same current-note id (none
\* of the calls made changes the current note's id).
C22_MigratesAtMostOnce ==
    \A s1, s2 \in 1..MaxInflight :
        (ops[s1].pc \in {"migrate", "write"} /\ ops[s2].pc \in {"migrate", "write"}) =>
            /\ s1 # s2 => ~(ops[s1].migrated /\ ops[s2].migrated)
            /\ IdsOf(ops[s1].data.currentStash) = IdsOf(ops[s2].data.currentStash)

\* C23: a call on a file that is neither a current-schema store nor a legacy
\* blob (invalid JSON, or a JSON value without a stashes list) behaves as on
\* no file: it ends without a TypeError.
C23_UnreadableFileAsNoFile ==
    (done.kind # "none" /\ done.before.kind \in {"malformed", "nolist"}) =>
        done.ret # "typeerror"

\* C24: no call ends with the rejection of adapter.read: a call whose read of
\* the existing file fails goes on with the empty store.
C24_ReadFailureAsEmptyStore ==
    done.ret # "readfailed"

\* C25: a call during which an adapter.write rejected ends with that
\* rejection, and the file is as it was when the call started.
C25_WriteFailurePropagates ==
    [][(done' # done /\ done'.failed) =>
          (done'.ret = "writefailed" /\ file' = done'.before)]_vars

\* C26: in a fetch that auto-stashes the editor's content, the stash write
\* completes before the write that makes the fetched stash the current note
\* is issued: no stashContent of the view's fetchStash is in flight after the
\* store's fetchStash has written.
C26_StashWrittenBeforeFetchWrite ==
    \A s \in 1..MaxInflight :
        ops[s].owner = "fetchStash.stash" =>
            ~(done.kind = "fetch" /\ done.wrote /\ done.note = ops[s].held)

\* text is the content of a note of the persisted store.
Persisted(text) ==
    /\ file.kind = "json"
    /\ \E i \in 1..Len(file.data.currentStash \o file.data.stashes) :
           (file.data.currentStash \o file.data.stashes)[i].content = text

\* C27: switching notes loses no content: once the fetch that found editor
\* content P to stash and stash S to load has ended, whether the auto-stash
\* succeeded or failed, and the autosave pending after it has fired and
\* ended, P and the content of S are each the content of a persisted note.
C27_SwitchLosesNoContent ==
    (fetched # <<>> /\ InFlight = 0 /\ saveTimer = 0) =>
        /\ Persisted(fetched[1].p)
        /\ Persisted(fetched[1].s)

\* C28: each debounced call has at most one timer pending, and after the
\* last input of a burst at most one snapshot is committed and at most one
\* save is issued, however many inputs the burst had.
C28_BurstCommitsOnce ==
    /\ snapTimer <= 1
    /\ saveTimer <= 1
    /\ burst.snap <= 1
    /\ burst.save <= 1

\* C28 witness: a burst of three inputs has been followed by one snapshot
\* commit and one save.
C28_Witness ==
    /\ scenario = "debounce"
    /\ burst.n = 3
    /\ burst.snap = 1
    /\ burst.save = 1

\* C29: once the inputs have stopped, both timers have fired and every save
\* has ended, the history's entry at the cursor and the persisted current
\* note's content are the editor's text.
C29_CommitsReachEditorText ==
    (scenario = "debounce" /\ actions > 0 /\ snapTimer = 0 /\ saveTimer = 0
     /\ InFlight = 0) =>
        /\ textIndex >= 0
        /\ textHistory[textIndex + 1] = textarea
        /\ file.kind = "json"
        /\ file.data.currentStash # <<>>
        /\ file.data.currentStash[1].content = textarea

\* C30: after undoCanvas invoked with the cursor at or below the oldest entry
\* the canvas history has no entries, the cursor is -1 and the surface is
\* blank, and a redoCanvas that follows leaves all three so.
C30_UndoBelowOldestClears ==
    lastAction \in {"undoCanvas.oldest", "redoCanvas.afterOldest"} =>
        /\ canvasHistory = <<>>
        /\ canvasIndex = -1
        /\ surface = Blank

\* C31: the canvas history never holds more than 20 snapshots, whatever the
\* number of completed strokes.
C31_CanvasHistoryWithinCapacity ==
    Len(canvasHistory) <= 20

\* C36: saveScratchpadContent(text) leaves the stashes list as it was and
\* sets the current note's content, preview and updatedAt: a current note
\* that existed keeps its id and createdAt, and where none existed one is
\* created with an id no note of the store has.
C36_SaveChangesOnlyCurrent ==
    done.kind = "save" =>
        /\ done.ret = "ok"
        /\ done.post.stashes = done.pre.stashes
        /\ Len(done.post.currentStash) = 1
        /\ done.post.currentStash[1].content = done.arg
        /\ done.post.currentStash[1].preview = generatePreview(done.arg)
        /\ done.post.currentStash[1].updatedAt = done.at
        /\ IF done.pre.currentStash # <<>>
           THEN /\ done.post.currentStash[1].id = done.pre.currentStash[1].id
                /\ done.post.currentStash[1].createdAt = done.pre.currentStash[1].createdAt
           ELSE /\ done.post.currentStash[1].id \notin StoreIds(done.pre)
                /\ done.post.currentStash[1].createdAt = done.at
        /\ file = JsonFile(done.post)

\* C36 witness: a save at a later time than the current note's creation
\* changed its content, with a note in the list.
C36_Witness ==
    /\ done.kind = "save"
    /\ done.pre.currentStash # <<>>
    /\ done.pre.stashes # <<>>
    /\ done.pre.currentStash[1].createdAt < done.at
    /\ done.pre.currentStash[1].content # done.arg

\* C32: no note of the persisted store, current or stashed, has a content
\* longer than maxNoteLength.
C32_NotesWithinMaxLength ==
    file.kind = "json" =>
        \A i \in 1..Len(file.data.currentStash \o file.data.stashes) :
            Len((file.data.currentStash \o file.data.stashes)[i].content)
                <= settings.maxNoteLength

\* The notes of the loaded list that the call has left out of the written one.
Evicted(d) ==
    {d.pre.stashes[i] : i \in {j \in 1..Len(d.pre.stashes) :
                                  d.pre.stashes[j].id \notin IdsOf(d.post.stashes)}}

\* C33: with autoEvictOldest, a note that createNewStash or stashContent
\* evicts is the oldest: no note left in the list is older than an evicted
\* one, by updatedAt or else by createdAt.
C33_EvictsOldest ==
    (done.kind \in {"new", "stash"} /\ done.ret = "ok" /\ settings.autoEvictOldest) =>
        \/ \A e \in Evicted(done) : \A i \in 1..Len(done.post.stashes) :
               done.post.stashes[i].updatedAt >= e.updatedAt
        \/ \A e \in Evicted(done) : \A i \in 1..Len(done.post.stashes) :
               done.post.stashes[i].createdAt >= e.createdAt

\* C34: two mutations whose load and write interleave can silently clobber
\* each other: the write of a method whose loaded data is no longer what the
\* file holds goes through all the same, the method ends without error and
\* the file is what that method computed from its stale data.
C34_StaleWriteGoesThrough ==
    [][\A s \in 1..MaxInflight :
          (ops[s].pc = "write" /\ ops'[s].pc = "idle" /\ Loadable(file) # ops[s].data) =>
              /\ done'.ret = "ok"
              /\ done'.wrote
              /\ file' = JsonFile(ops[s].out.data)]_vars

\* C34 witness: a createNewStash and a saveScratchpadContent have both ended
\* without error, no call is in flight, and the note the createNewStash
\* returned is nowhere in the file.
C34_Witness ==
    /\ scenario = "race"
    /\ InFlight = 0
    /\ done.kind = "save" /\ done.ret = "ok" /\ done.wrote
    /\ done.prior.kind = "new" /\ done.prior.ret = "ok" /\ done.prior.wrote
    /\ file = JsonFile(done.post)
    /\ done.prior.note[1].id \notin StoreIds(file.data)

\* C35: the text X of a successful New stash stays the content of a persisted
\* note: right after the view's createNewStash has succeeded, and after the
\* call that ended next (the autosave pending at the click or a later one).
C35_NewStashKeepsText ==
    /\ (done.kind = "new" /\ done.ret = "ok") => Persisted(done.arg)
    /\ (done.prior.kind = "new" /\ done.prior.ret = "ok") => Persisted(done.prior.arg)

\* The call in slot s returns to its caller in this step.
Returns(s) ==
    /\ ops[s].pc # "idle"
    /\ ops'[s].pc = "idle" \/ ops'[s].owner # ops[s].owner

\* This step replaces the editor's content by text: the initial load has
\* returned, the New button's createNewStash has succeeded, a fetch has got its
\* note (and has stashed the editor's content where it had to), or Clear.
Replaces(text) ==
    \/ /\ lastAction' = "clear" /\ actions' = actions + 1
       /\ text = EmptyText
    \/ \E s \in 1..MaxInflight :
          /\ Returns(s)
          /\ \/ /\ ops[s].owner = "onOpen"
                /\ done'.ret = "ok"
                /\ text = IF done'.post.currentStash = <<>> THEN EmptyText
                          ELSE done'.post.currentStash[1].content
             \/ /\ ops[s].owner = "createNewStash"
                /\ done'.ret = "ok"
                /\ text = EmptyText
             \/ /\ ops[s].owner = "fetchStash"
                /\ done'.note # <<>>
                /\ \/ trim(textarea) = EmptyText
                   \/ trim(textarea) = done'.note[1].content
                   \/ ~settings.autoStashOnFetch
                /\ text = done'.note[1].content
             \/ /\ ops[s].owner = "fetchStash.stash"
                /\ done'.ret = "ok"
                /\ text = ops[s].held[1].content

\* C37: a step that replaces the editor's content as a whole (initial load,
\* successful fetch, successful New stash, Clear) leaves the text history with
\* the new text as its one entry and the cursor on it; and so, while the view
\* is open, the editor and every entry of the history (all that undo, redo or
\* a snapshot pending at the replacement can show) hold a text the editor has
\* held since the last replacement, never one of the note edited before.
C37_ReplacementResetsHistory ==
    /\ [][\A text \in ViewTexts :
            Replaces(text) => /\ textarea' = text
                              /\ textHistory' = <<text>>
                              /\ textIndex' = 0]_vars
    /\ [](phase = "open" =>
            /\ textarea \in shown
            /\ \A i \in 1..Len(textHistory) : textHistory[i] \in shown)

\* A fetch has just replaced the content the user had typed, with the
\* debounced snapshot of that typing still pending.
C37_Witness ==
    /\ scenario = "replace"
    /\ lastAction = "fetch"
    /\ InFlight = 0
    /\ done.kind \in {"fetch", "stash"} /\ done.ret = "ok"
    /\ snapTimer > 0
    /\ textarea # EmptyText
    /\ textHistory = <<textarea>>
    /\ textIndex = 0
    /\ shown = {textarea}

\* C38: in every reachable state, text typed since the last snapshot included,
\* undo followed at once by redo leaves the editor showing the text it showed
\* before the undo.
C38_UndoThenRedoRestoresText ==
    rt.phase = "done" => textarea = rt.saved.textarea

\* C3: the text history is either empty with the cursor at -1, or the cursor
\* is a valid index into it, after any snapshot commit, undo, redo, Clear, load,
\* stash fetch and new-stash reset.
C3_CursorInRange ==
    \/ textHistory = <<>> /\ textIndex = -1
    \/ 0 <= textIndex /\ textIndex < Len(textHistory)

\* C3 witness: a full history has lost its oldest entry to a commit and the
\* user has undone one step since.
C3_Witness ==
    /\ scenario = "view"
    /\ Len(textHistory) = MAX_TEXT_HISTORY_SIZE
    /\ textHistory # LongHistory
    /\ textIndex = MAX_TEXT_HISTORY_SIZE - 2
    /\ lastAction = "undo"

\* C9: after a createNewStash(content) that succeeded on a store whose current
\* note P was non-blank, P is the first entry of the stashes list and is there
\* once, the other entries are the earlier entries in their earlier order, and
\* the current note is a new one holding content, whose id is neither P's nor
\* an id of the list.
C9_NewStashDemotesCurrent ==
    (/\ done.kind = "new"
     /\ done.ret = "ok"
     /\ done.pre.currentStash # <<>>
     /\ NonBlank(done.pre.currentStash[1].content)) =>
        LET P == done.pre.currentStash[1]
            post == done.post
            rest == withoutId(done.pre.stashes, P.id)
        IN /\ done.wrote /\ file = JsonFile(post)
           /\ post.stashes # <<>>
           /\ post.stashes[1].id = P.id
           /\ post.stashes[1].content = P.content
           /\ Cardinality({j \in 1..Len(post.stashes) : post.stashes[j].id = P.id}) = 1
           /\ Len(post.stashes) - 1 <= Len(rest)
           /\ Tail(post.stashes) = slice(rest, Len(post.stashes) - 1)
           /\ post.currentStash # <<>>
           /\ post.currentStash[1].content = done.arg
           /\ post.currentStash[1].id # P.id
           /\ post.currentStash[1].id \notin IdsOf(post.stashes)
           /\ post.currentStash[1].id \notin IdsOf(done.pre.stashes)

\* C9 witness: createNewStash succeeded on a store with a non-blank current
\* note and two stashed notes.
C9_Witness ==
    /\ done.kind = "new"
    /\ done.ret = "ok"
    /\ done.pre.currentStash # <<>>
    /\ NonBlank(done.pre.currentStash[1].content)
    /\ Len(done.pre.stashes) = 2
    /\ Len(done.post.stashes) = 3

RECURSIVE Reverse(_)
Reverse(q) == IF q = <<>> THEN <<>> ELSE Append(Reverse(Tail(q)), Head(q))

Min(a, b) == IF a <= b THEN a ELSE b

\* C10: with autoEvictOldest on and maxStashes = M, after createNewStash calls
\* that demoted d1, ..., dn in that order, the stashes list has at most M
\* entries and is the min(n, M) most recently demoted notes, most recent first.
C10_ListIsMostRecentlyDemoted ==
    /\ Len(file.data.stashes) <= settings.maxStashes
    /\ file.data.stashes =
           slice(Reverse(demoted), Min(Len(demoted), settings.maxStashes))

\* C10 witness: three notes were demoted with M = 2, so the first is gone.
C10_Witness ==
    /\ scenario = "demote"
    /\ settings.maxStashes = 2
    /\ Len(demoted) = 3
    /\ Len(file.data.stashes) = 2

PrevEntry == prev.textHistory[prev.textIndex + 1]

\* C4: the text history never holds more than C = 50 entries; after C+k
\* consecutive pushes of pairwise-distinct values (k > 0) it holds exactly the
\* C newest of them in order, so the k oldest are gone, the cursor is C-1 right
\* after each such push, and no undo or redo displays one of the k evicted values.
C4_CapacityEviction ==
    /\ Len(textHistory) <= MAX_TEXT_HISTORY_SIZE
    /\ pushes > MAX_TEXT_HISTORY_SIZE =>
         LET k == pushes - MAX_TEXT_HISTORY_SIZE
         IN /\ Len(textHistory) = MAX_TEXT_HISTORY_SIZE
            /\ \A j \in 1..MAX_TEXT_HISTORY_SIZE : textHistory[j] = FreshText(k + j)
            /\ \A m \in 1..k : \A j \in 1..Len(textHistory) :
                   textHistory[j] # FreshText(m)
            /\ (lastAction = "push" /\ textHistory # prev.textHistory) =>
                   textIndex = MAX_TEXT_HISTORY_SIZE - 1
            /\ lastAction \in {"undo", "redo"} =>
                   \A m \in 1..k : textarea # FreshText(m)

\* C4 witness: two values were evicted and the user has undone down to the
\* oldest retained entry.
C4_Witness ==
    /\ scenario = "cap"
    /\ pushes = MAX_TEXT_HISTORY_SIZE + 2
    /\ lastAction = "undo"
    /\ prev.textIndex = 0
    /\ textIndex = 0

\* C5: a push of a value that differs from the entry at the cursor discards
\* the entries after the cursor, appends the value and leaves the cursor on the
\* last index (the oldest entry is dropped when capacity is exceeded), so redo
\* is a no-op right after it.
C5_PushTruncatesRedo ==
    (lastAction = "push" /\ prev.textIndex >= 0 /\ prev.textarea # PrevEntry) =>
        LET kept == SubSeq(prev.textHistory, 1, prev.textIndex + 1)
            full == Append(kept, prev.textarea)
        IN /\ \/ textHistory = full
              \/ Len(full) > MAX_TEXT_HISTORY_SIZE /\ textHistory = Tail(full)
           /\ textIndex = Len(textHistory) - 1
           /\ textHistory[textIndex + 1] = prev.textarea
           /\ redoText(textHistory, textIndex, textarea) = Shown(textIndex, textarea)

\* C5 witness: a differing value was pushed while a redo branch of two entries
\* existed.
C5_Witness ==
    /\ lastAction = "push"
    /\ prev.textIndex >= 0
    /\ prev.textarea # PrevEntry
    /\ prev.textIndex + 2 < Len(prev.textHistory)

\* C6: a push whose value equals the entry at the cursor of a non-empty
\* history changes neither the entries (redo branch included) nor the cursor.
C6_DuplicatePushNoOp ==
    (lastAction = "push" /\ prev.textIndex >= 0 /\ prev.textarea = PrevEntry) =>
        /\ textHistory = prev.textHistory
        /\ textIndex = prev.textIndex

\* C6 witness: a duplicate push happened while a redo branch existed.
C6_Witness ==
    /\ lastAction = "push"
    /\ prev.textIndex >= 0
    /\ prev.textarea = PrevEntry
    /\ prev.textIndex < Len(prev.textHistory) - 1

\* C7: starting right after a push that left the cursor on the newest entry (in
\* particular after any sequence of pushes), undo N times followed by redo N times
\* leaves entries, cursor and displayed text as they were before the first undo.
C7_UndoRedoRoundTrip ==
    rt.phase = "done" => Editor = rt.saved

\* C7 witness: a finished round trip with N larger than the number of entries
\* below the cursor, and one with N smaller, both end in "done"; this is the
\* former.
C7_Witness ==
    /\ rt.phase = "done"
    /\ rt.n = 3
    /\ Len(textHistory) = 3

\* C8: undo at cursor <= 0 and redo at cursor >= len-1 change nothing;
\* otherwise they move the cursor by exactly one, display the entry at the new
\* cursor, and leave the entries alone.
C8_UndoRedoStep ==
    /\ lastAction = "undo" =>
         IF prev.textIndex <= 0
         THEN Editor = prev
         ELSE /\ textIndex = prev.textIndex - 1
              /\ textarea = textHistory[textIndex + 1]
              /\ textHistory = prev.textHistory
    /\ lastAction = "redo" =>
         IF prev.textIndex >= Len(prev.textHistory) - 1
         THEN Editor = prev
         ELSE /\ textIndex = prev.textIndex + 1
              /\ textarea = textHistory[textIndex + 1]
              /\ textHistory = prev.textHistory

\* C8 witness: an undo that moved the cursor while unsaved text was displayed.
C8_Witness ==
    /\ lastAction = "undo"
    /\ prev.textIndex > 0
    /\ prev.textarea # PrevEntry
    /\ textIndex = prev.textIndex - 1

====
